---- MODULE Spec2Model ----
(***************************************************************************)
(* State-machine model of the EOG annotation plugin (src/annotation.py):   *)
(* the AnnotationManager (annotation list and snapshot undo/redo stacks),  *)
(* the AnnotationToolbar selections and the AnnotationPlugin event         *)
(* handlers.  Init is the plugin after __init__ and do_activate: the       *)
(* toolbar exists and the pointer handlers are connected to the view.      *)
(*                                                                         *)
(* Python values are encoded as follows: None for a point is NoPoint, None *)
(* for a number (x2, y2, counter) is NoNum, None for a tool is the string  *)
(* "None", and a handler's return value is one of "True", "False", "None". *)
(***************************************************************************)
EXTENDS Integers, Sequences, FiniteSets, TLC

VARIABLES
    annotations,            \* AnnotationManager.annotations
    undo_stack,             \* AnnotationManager.undo_stack
    redo_stack,             \* AnnotationManager.redo_stack
    max_history,            \* AnnotationManager.max_history
    counter,                \* AnnotationPlugin.counter
    current_tool,           \* AnnotationPlugin.current_tool
    shape_start_point,      \* AnnotationPlugin.shape_start_point
    shape_preview_end,      \* AnnotationPlugin.shape_preview_end
    shape_type,             \* AnnotationPlugin.shape_type
    text_bold_default,      \* AnnotationPlugin.text_bold_default
    tb_current_tool,        \* AnnotationToolbar.current_tool
    tb_current_color,       \* AnnotationToolbar.current_color
    tb_current_line_width,  \* AnnotationToolbar.current_line_width
    tb_current_arrow_style, \* AnnotationToolbar.current_arrow_style
    tb_active,              \* the tool buttons whose get_active() is true
    undo_btn_sensitive,     \* AnnotationToolbar.undo_btn sensitivity
    redo_btn_sensitive,     \* AnnotationToolbar.redo_btn sensitivity
    last,                   \* the last event handled: handler, inputs, result
    lastDotSeq,             \* number of the last Dot committed since the last
                            \* clear-all (0 when there is none)
    ur,                     \* progress of a run of the form add^k undo^n redo^n
    view,                   \* AnnotationManager.view
    draw_handler_id,        \* AnnotationManager.draw_handler_id
    hooks,                  \* the "draw" handlers connected: <<view, id>> pairs
    next_handler_id,        \* the id the next connect on a view returns
    bad_disconnect,         \* a disconnect named a handler not connected on
                            \* the view it was called on
    activated,              \* do_activate has run and do_deactivate has not
    dialog_at,              \* the click whose text dialog is running (x, y of
                            \* the suspended _on_button_press), or NoPoint
    entry,                  \* the manager as it was when that handler began
    current_zoom,           \* AnnotationPlugin.current_zoom, in thousandths
    is_fullscreen,          \* AnnotationPlugin.is_fullscreen
    toolbar_visible,        \* AnnotationPlugin.toolbar_visible
    toolbar_shown           \* the toolbar widget (or its floating window) is
                            \* shown on screen

vars == <<annotations, undo_stack, redo_stack, max_history, counter,
          current_tool, shape_start_point, shape_preview_end, shape_type,
          text_bold_default, tb_current_tool, tb_current_color,
          tb_current_line_width, tb_current_arrow_style, tb_active,
          undo_btn_sensitive, redo_btn_sensitive, last, lastDotSeq, ur,
          view, draw_handler_id, hooks, next_handler_id, bad_disconnect,
          activated, dialog_at, entry, current_zoom, is_fullscreen,
          toolbar_visible, toolbar_shown>>

mgrVars == <<annotations, undo_stack, redo_stack, max_history>>
dialogVars == <<dialog_at, entry>>
hideVars == <<current_zoom, is_fullscreen, toolbar_visible, toolbar_shown>>
pendingVars == <<shape_start_point, shape_preview_end, shape_type>>
styleVars == <<tb_current_color, tb_current_line_width, tb_current_arrow_style>>
toolVars == <<current_tool, tb_current_tool, tb_active>>
btnVars == <<undo_btn_sensitive, redo_btn_sensitive>>
viewVars == <<view, draw_handler_id, hooks, next_handler_id, bad_disconnect,
              activated>>

(***************************************************************************)
(* Bounds of the model and the input sets the events are drawn from.       *)
(***************************************************************************)
MaxHistory == 2          \* longest undo stack an add or clear may leave (Spec)
MaxPointerHistory == 1   \* the same under SpecPointer
MaxViewHistory == 1      \* longest undo stack an add or clear may leave (SpecView)
MaxDrawHistory == 1      \* longest undo stack an add or clear may leave (SpecDraw)
MaxCoord == 4            \* largest coordinate of a shape drawn (SpecGeom)
MaxExportHistory == 1    \* shapes committed before an export (SpecExport)
MaxStemLen == 2          \* characters of a file path before its ending
MaxCap == 2              \* the history cap of SpecCapped (max_history)
MaxHandlerId == 4        \* largest handler id a connect may return (SpecView)
MaxCounter == 2          \* largest number a Dot is committed with

NoPoint == <<>>
NoNum == -1
NoView == "None"
Views == {"v1", "v2"}
Origin == <<1, 2>>
Points == {Origin, <<3, 1>>}
Buttons == {1, 3}
Colors == {<<0, 0, 1>>}
LineWidths == {2}
ArrowStyles == {0}
DrawColors == {<<0, 0, 1>>, <<1, 0, 0>>}
DrawLineWidths == {2, 5}
DrawArrowStyles == {0, 3}
DrawTools == {"arrow", "rectangle"}
TwoClickTools == {"arrow", "rectangle", "circle"}
Tools == {"arrow", "dot", "rectangle", "circle", "text"}
SpecTools == {"arrow", "dot", "text"}
\* what the modal text dialog hands back: response, entry text, bold check
DialogResults ==
    { [response |-> "CANCEL", text |-> "hi", bold |-> FALSE],
      [response |-> "OK", text |-> "", bold |-> FALSE],
      [response |-> "OK", text |-> "hi", bold |-> TRUE] }
NoDialog == [response |-> "NONE", text |-> "", bold |-> FALSE]

(***************************************************************************)
(* Annotation: the constructor with its defaults.                          *)
(***************************************************************************)
Annotation(tool_type, x1, y1, x2, y2, color, text, text_bold, line_width, arrow_style) ==
    [tool_type |-> tool_type, x1 |-> x1, y1 |-> y1, x2 |-> x2, y2 |-> y2,
     color |-> color, text |-> text, counter |-> NoNum,
     text_bold |-> text_bold, text_italic |-> FALSE, text_size |-> 14,
     line_width |-> line_width, arrow_style |-> arrow_style]

(***************************************************************************)
(* AnnotationManager.  The manager is passed as a record m of its fields,  *)
(* each method returns the manager after the call (and its return value).  *)
(* copy.deepcopy of a list of Annotations is the list itself: shapes are   *)
(* plain values here and no handler mutates a shape in place.              *)
(***************************************************************************)
Mgr == [annotations |-> annotations, undo_stack |-> undo_stack,
        redo_stack |-> redo_stack, max_history |-> max_history]

deepcopy(state) == state

\* save_state as it would be without the reset of the redo stack
save_state_keeps_redo(m) ==
    LET pushed == Append(m.undo_stack, deepcopy(m.annotations))
    IN [m EXCEPT !.undo_stack =
                    IF m.max_history > 0 /\ Len(pushed) > m.max_history
                    THEN Tail(pushed) ELSE pushed]

\* save_state as it would be with max_history fixed at 1
save_state_capped_at_one(m) ==
    LET pushed == Append(m.undo_stack, deepcopy(m.annotations))
    IN [m EXCEPT !.undo_stack = IF Len(pushed) > 1 THEN Tail(pushed) ELSE pushed,
                 !.redo_stack = <<>>]

\* save_state as it would be without the trim
save_state_never_trims(m) ==
    LET pushed == Append(m.undo_stack, deepcopy(m.annotations))
    IN [m EXCEPT !.undo_stack = pushed, !.redo_stack = <<>>]

save_state(m) ==
    LET pushed == Append(m.undo_stack, deepcopy(m.annotations))
    IN [m EXCEPT !.undo_stack =
                    IF m.max_history > 0 /\ Len(pushed) > m.max_history
                    THEN Tail(pushed) ELSE pushed,
                 !.redo_stack = <<>>]

\* the list with its Dots numbered 1, 2, ... by position
Renumbered(state) ==
    [i \in DOMAIN state |->
        IF state[i].tool_type = "dot"
        THEN [state[i] EXCEPT !.counter =
                 Cardinality({j \in 1..i : state[j].tool_type = "dot"})]
        ELSE state[i]]

\* _restore_state as it would be if it renumbered the Dots it restores
restore_state_renumbers(m, state) == [m EXCEPT !.annotations = Renumbered(state)]

restore_state(m, state) == [m EXCEPT !.annotations = deepcopy(state)]

can_undo(m) == Len(m.undo_stack) > 0

can_redo(m) == Len(m.redo_stack) > 0

\* undo as it would be with the redo push placed before the emptiness check
undo_pushes_first(m) ==
    LET pushed == [m EXCEPT !.redo_stack = Append(@, deepcopy(m.annotations))]
    IN IF ~can_undo(m)
       THEN [ret |-> FALSE, m |-> pushed]
       ELSE LET previous_state == pushed.undo_stack[Len(pushed.undo_stack)]
                popped == [pushed EXCEPT !.undo_stack = SubSeq(@, 1, Len(@) - 1)]
            IN [ret |-> TRUE, m |-> restore_state(popped, previous_state)]

\* undo as it would be if it saved the restored state, not the current one
undo_saves_previous(m) ==
    IF ~can_undo(m)
    THEN [ret |-> FALSE, m |-> m]
    ELSE LET previous_state == m.undo_stack[Len(m.undo_stack)]
             pushed == [m EXCEPT !.redo_stack = Append(@, deepcopy(previous_state))]
             popped == [pushed EXCEPT !.undo_stack = SubSeq(@, 1, Len(@) - 1)]
         IN [ret |-> TRUE, m |-> restore_state(popped, previous_state)]

undo(m) ==
    IF ~can_undo(m)
    THEN [ret |-> FALSE, m |-> m]
    ELSE LET pushed == [m EXCEPT !.redo_stack = Append(@, deepcopy(m.annotations))]
             previous_state == pushed.undo_stack[Len(pushed.undo_stack)]
             popped == [pushed EXCEPT !.undo_stack = SubSeq(@, 1, Len(@) - 1)]
         IN [ret |-> TRUE, m |-> restore_state(popped, previous_state)]

\* redo as it would be if it did not save the current list for undo
redo_without_push(m) ==
    IF ~can_redo(m)
    THEN [ret |-> FALSE, m |-> m]
    ELSE LET redo_state == m.redo_stack[Len(m.redo_stack)]
             popped == [m EXCEPT !.redo_stack = SubSeq(@, 1, Len(@) - 1)]
         IN [ret |-> TRUE, m |-> restore_state(popped, redo_state)]

redo(m) ==
    IF ~can_redo(m)
    THEN [ret |-> FALSE, m |-> m]
    ELSE LET pushed == [m EXCEPT !.undo_stack = Append(@, deepcopy(m.annotations))]
             redo_state == pushed.redo_stack[Len(pushed.redo_stack)]
             popped == [pushed EXCEPT !.redo_stack = SubSeq(@, 1, Len(@) - 1)]
         IN [ret |-> TRUE, m |-> restore_state(popped, redo_state)]

\* add_annotation as it would be without the snapshot
add_annotation_without_snapshot(m, annotation) ==
    [m EXCEPT !.annotations = Append(@, annotation), !.redo_stack = <<>>]

add_annotation(m, annotation) ==
    LET saved == save_state(m)
    IN [saved EXCEPT !.annotations = Append(@, annotation)]

\* clear as it would be if it took no snapshot of an empty list
clear_skips_empty(m) ==
    IF m.annotations = <<>> THEN [m EXCEPT !.redo_stack = <<>>]
    ELSE LET saved == save_state(m)
         IN [saved EXCEPT !.annotations = <<>>]

clear(m) ==
    LET saved == save_state(m)
    IN [saved EXCEPT !.annotations = <<>>]

SetMgr(m) ==
    /\ annotations' = m.annotations
    /\ undo_stack' = m.undo_stack
    /\ redo_stack' = m.redo_stack
    /\ max_history' = m.max_history

\* _update_undo_redo_buttons as it would be if it left the redo button alone
update_undo_redo_buttons_undo_only(m) ==
    /\ undo_btn_sensitive' = can_undo(m)
    /\ UNCHANGED redo_btn_sensitive

\* AnnotationPlugin._update_undo_redo_buttons on the manager after the call
update_undo_redo_buttons(m) ==
    /\ undo_btn_sensitive' = can_undo(m)
    /\ redo_btn_sensitive' = can_redo(m)

Str(b) == IF b THEN "True" ELSE "False"

Pending == shape_start_point # NoPoint

\* no export environment (the event is not an export), and no file written
NoEnv ==
    [image |-> FALSE, file_info |-> FALSE, pixbuf |-> FALSE, image_view |-> FALSE,
     img_width |-> 0, img_height |-> 0, view_width |-> 0, view_height |-> 0,
     file_path |-> <<>>, fail_at |-> 0, encoder_error |-> FALSE]
NoFile == [path |-> <<>>, encoder |-> "None", quality |-> NoNum]

\* no handler is suspended in its text dialog
NoEntry == [annotations |-> <<>>, undo_stack |-> <<>>, redo_stack |-> <<>>,
            max_history |-> 0]

\* The record of one handled event: the handler (op), its inputs, whether a
\* two-click shape was pending when it arrived, the manager method the
\* handler called ("none" when it called none) and the value returned; for
\* a repaint or an export, the draw calls it made (out), whether an
\* exception was raised and caught inside the handler (err) and whether the
\* export delivered its image (done), what the host answered it (env) and
\* the file it wrote (file); for a tool toggle, the tool-changed signals
\* emitted (out) and the nested runs of the toggle handler (nested).
Event(op, button, pt, tool, dlg, call, ret) ==
    [op |-> op, button |-> button, pt |-> pt, tool |-> tool, dlg |-> dlg,
     pending |-> Pending, call |-> call, ret |-> ret, out |-> <<>>, err |-> FALSE,
     done |-> FALSE, env |-> NoEnv, file |-> NoFile, nested |-> 0]

(***************************************************************************)
(* History variable ur follows the manager calls of a run from the start:  *)
(* phase "adds" while only add_annotation was called, "undos" while only   *)
(* successful undo() calls followed, "redos" while only successful redo()  *)
(* calls followed those (no more of them than undos), and "off" once the   *)
(* run has left that form (or when the run is not followed at all).  S is  *)
(* the annotation list the adds produced.                                  *)
(***************************************************************************)
UrOff == [phase |-> "off", S |-> <<>>, adds |-> 0, undos |-> 0, redos |-> 0]

UrAfter(call, ret) ==
    CASE call = "none" -> ur
      [] call = "add" ->
            IF ur.phase = "adds" THEN [ur EXCEPT !.adds = @ + 1] ELSE UrOff
      [] call = "undo" ->
            IF ret /\ ur.phase = "adds"
            THEN [ur EXCEPT !.phase = "undos", !.S = annotations, !.undos = 1]
            ELSE IF ret /\ ur.phase = "undos"
                 THEN [ur EXCEPT !.undos = @ + 1]
                 ELSE UrOff
      [] call = "redo" ->
            IF ret /\ ur.phase \in {"undos", "redos"} /\ ur.redos < ur.undos
            THEN [ur EXCEPT !.phase = "redos", !.redos = @ + 1]
            ELSE UrOff
      [] OTHER -> UrOff

histVars == <<lastDotSeq, ur>>

\* the program after __init__ and do_activate
InitManager(cap) ==
    /\ annotations = <<>>
    /\ undo_stack = <<>>
    /\ redo_stack = <<>>
    /\ max_history = cap
    /\ counter = 1
    /\ current_tool = "None"
    /\ shape_start_point = NoPoint
    /\ shape_preview_end = NoPoint
    /\ shape_type = "None"
    /\ text_bold_default = FALSE
    /\ tb_current_tool = "None"
    /\ tb_current_color = <<0, 0, 1>>
    /\ tb_current_line_width = 2
    /\ tb_current_arrow_style = 0
    /\ tb_active = {}
    /\ undo_btn_sensitive = FALSE
    /\ redo_btn_sensitive = FALSE
    /\ last = [op |-> "init", button |-> 0, pt |-> NoPoint, tool |-> "None",
               dlg |-> NoDialog, pending |-> FALSE, call |-> "none", ret |-> "None",
               out |-> <<>>, err |-> FALSE, done |-> FALSE, env |-> NoEnv,
               file |-> NoFile, nested |-> 0]
    /\ lastDotSeq = 0
    /\ view = "v1"
    /\ draw_handler_id = 1
    /\ hooks = {<<"v1", 1>>}
    /\ next_handler_id = 2
    /\ bad_disconnect = FALSE
    /\ activated = TRUE
    /\ dialog_at = NoPoint
    /\ entry = NoEntry
    /\ current_zoom = 1000
    /\ is_fullscreen = FALSE
    /\ toolbar_visible = TRUE
    /\ toolbar_shown = TRUE

\* the program as constructed: the history is unlimited (max_history = 0)
InitProgram == InitManager(0)

\* Init leaves ur switched off; InitFollowed starts following the run.
Init == InitProgram /\ ur = UrOff

InitFollowed ==
    InitProgram /\ ur = [phase |-> "adds", S |-> <<>>, adds |-> 0, undos |-> 0, redos |-> 0]

\* InitCapped: a manager whose max_history was set to MaxCap before its
\* first operation.
InitCapped == InitManager(MaxCap) /\ ur = UrOff

(***************************************************************************)
(* The view binding of the manager.  connect_after returns a handler id    *)
(* never returned before; disconnect removes the handler of that id from   *)
(* the view, and is recorded in bad_disconnect when the view holds none.   *)
(***************************************************************************)
ViewState ==
    [view |-> view, draw_handler_id |-> draw_handler_id, hooks |-> hooks,
     next_handler_id |-> next_handler_id, bad_disconnect |-> bad_disconnect]

\* GObject.disconnect(handler_id) on a view
disconnect(s, v, id) ==
    [s EXCEPT !.hooks = @ \ {<<v, id>>},
              !.bad_disconnect = @ \/ <<v, id>> \notin s.hooks]

\* GObject.connect_after("draw", ...) on a view
connect_after(s, v) ==
    [s EXCEPT !.hooks = @ \cup {<<v, s.next_handler_id>>},
              !.draw_handler_id = s.next_handler_id,
              !.next_handler_id = @ + 1]

\* set_view as it would be if it did not release the previous registration
set_view_keeps_hook(s, v) ==
    LET bound == [s EXCEPT !.view = v]
    IN IF v # NoView THEN connect_after(bound, v) ELSE bound

\* AnnotationManager.set_view
set_view(s, v) ==
    LET released == IF s.draw_handler_id # NoNum /\ s.view # NoView
                    THEN disconnect(s, s.view, s.draw_handler_id)
                    ELSE s
        bound == [released EXCEPT !.view = v]
    IN IF v # NoView THEN connect_after(bound, v) ELSE bound

SetViewState(s) ==
    /\ view' = s.view
    /\ draw_handler_id' = s.draw_handler_id
    /\ hooks' = s.hooks
    /\ next_handler_id' = s.next_handler_id
    /\ bad_disconnect' = s.bad_disconnect

\* a call of AnnotationManager.set_view with a view or with None
SetView(v) ==
    /\ SetViewState(set_view(ViewState, v))
    /\ last' = Event("set_view", 0, NoPoint, "None", NoDialog, "none", "None")
    /\ UNCHANGED <<hideVars, dialogVars, activated, mgrVars, counter, pendingVars, toolVars,
                   text_bold_default, styleVars, btnVars, histVars>>

\* AnnotationPlugin.do_deactivate: the handlers are disconnected, the
\* toolbar is destroyed, the manager is unbound from its view and dropped
Deactivate ==
    /\ activated' = FALSE
    /\ SetViewState(set_view(ViewState, NoView))
    /\ last' = Event("deactivate", 0, NoPoint, "None", NoDialog, "none", "None")
    /\ UNCHANGED <<hideVars, dialogVars, mgrVars, counter, pendingVars, toolVars,
                   text_bold_default, styleVars, btnVars, histVars>>

(***************************************************************************)
(* Auto-hide.  The zoom is kept in thousandths (1000 = 100%).  The toggle  *)
(* button and the menu item that would hide the toolbar by hand are never  *)
(* created (their set-up methods are not called), so the visibility only   *)
(* changes in _update_toolbar_visibility.                                  *)
(***************************************************************************)
Abs(n) == IF n < 0 THEN -n ELSE n

\* _update_toolbar_visibility as it would be if it did not look at the
\* fullscreen state
update_toolbar_visibility_zoom_only(zoom, fullscreen) ==
    LET should_show == Abs(zoom - 1000) < 10
    IN IF should_show # toolbar_visible
       THEN toolbar_visible' = should_show /\ toolbar_shown' = should_show
       ELSE UNCHANGED <<toolbar_visible, toolbar_shown>>

\* AnnotationPlugin._update_toolbar_visibility, run with the zoom and the
\* fullscreen state the handler has just stored
update_toolbar_visibility(zoom, fullscreen) ==
    LET should_show == Abs(zoom - 1000) < 10 /\ ~fullscreen
    IN IF should_show # toolbar_visible
       THEN toolbar_visible' = should_show /\ toolbar_shown' = should_show
       ELSE UNCHANGED <<toolbar_visible, toolbar_shown>>

\* the frame of the auto-hide handlers
HideFrame ==
    UNCHANGED <<dialogVars, viewVars, mgrVars, counter, pendingVars, toolVars,
                text_bold_default, styleVars, btnVars, histVars>>

\* _on_zoom_changed: the view reports zoom z
ZoomChanged(z) ==
    /\ current_zoom' = z
    /\ update_toolbar_visibility(z, is_fullscreen)
    /\ last' = Event("zoom_changed", z, NoPoint, "None", NoDialog, "none", "None")
    /\ UNCHANGED is_fullscreen
    /\ HideFrame

\* _on_window_state_changed: nothing unless the event's changed mask has
\* the fullscreen bit; the handler returns False
WindowStateChanged(changed, fullscreen) ==
    /\ IF changed
       THEN /\ is_fullscreen' = fullscreen
            /\ update_toolbar_visibility(current_zoom, fullscreen)
       ELSE UNCHANGED <<is_fullscreen, toolbar_visible, toolbar_shown>>
    /\ last' = Event("window_state", IF changed THEN 1 ELSE 0, NoPoint, "None",
                     NoDialog, "none", "False")
    /\ UNCHANGED current_zoom
    /\ HideFrame

\* _on_fullscreen_changed: the window reports its fullscreen state
FullscreenChanged(fullscreen) ==
    /\ is_fullscreen' = fullscreen
    /\ update_toolbar_visibility(current_zoom, fullscreen)
    /\ last' = Event("fullscreen_changed", 0, NoPoint, "None", NoDialog, "none", "None")
    /\ UNCHANGED current_zoom
    /\ HideFrame

(***************************************************************************)
(* AnnotationToolbar: the tool toggle buttons and the selectors.           *)
(***************************************************************************)
\* The toolbar while a toggle is handled: the active buttons,
\* toolbar.current_tool, the tool-changed signals emitted so far and the
\* number of handler runs started from inside another.
\*
\* the handler's else branch as it would be if it did not look at the other
\* buttons
toggled_off_unconditional(st) ==
    [st EXCEPT !.tool = "None", !.emitted = Append(@, "")]

\* _on_any_tool_toggled run for a button that is not active (else branch)
toggled_off(st) ==
    IF st.active = {}
    THEN [st EXCEPT !.tool = "None", !.emitted = Append(@, "")]
    ELSE st

\* the loop over the other buttons: set_active(False) on an active one runs
\* the handler for that button, nested, before the loop goes on
RECURSIVE deactivate_others(_, _)
deactivate_others(st, names) ==
    IF names = {} THEN st
    ELSE LET name == CHOOSE n \in names : TRUE
             off == [st EXCEPT !.active = @ \ {name}, !.nested = @ + 1]
         IN deactivate_others(toggled_off(off), names \ {name})

\* _on_any_tool_toggled as run for the button the user clicked, whose state
\* has just flipped.
on_any_tool_toggled(active, tb_tool, tool_name) ==
    LET flipped == IF tool_name \in active THEN active \ {tool_name}
                   ELSE active \cup {tool_name}
        st == [active |-> flipped, tool |-> tb_tool, emitted |-> <<>>, nested |-> 0]
    IN IF tool_name \in flipped
       THEN LET others == deactivate_others(st, flipped \ {tool_name})
            IN [others EXCEPT !.tool = tool_name, !.emitted = Append(@, tool_name)]
       ELSE toggled_off(st)

\* _on_tool_changed as it would be without the reset of the pending shape
on_tool_changed_keeps_pending(tool) ==
    /\ current_tool' = tool
    /\ UNCHANGED <<shape_start_point, shape_preview_end, shape_type>>

\* AnnotationPlugin._on_tool_changed: the plugin fields after the signal
on_tool_changed(tool) ==
    /\ current_tool' = tool
    /\ shape_start_point' = NoPoint
    /\ shape_preview_end' = NoPoint
    /\ shape_type' = "None"

\* The user clicks the toggle button of tool_name.
ToolToggled(tool_name) ==
    LET r == on_any_tool_toggled(tb_active, tb_current_tool, tool_name)
    IN /\ tb_active' = r.active
       /\ tb_current_tool' = r.tool
       /\ IF Len(r.emitted) > 0
          THEN on_tool_changed(r.emitted[Len(r.emitted)])
          ELSE UNCHANGED <<current_tool, shape_start_point, shape_preview_end, shape_type>>
       /\ last' = [Event("tool_toggled", 0, NoPoint, tool_name, NoDialog, "none", "None")
                      EXCEPT !.out = r.emitted, !.nested = r.nested]
       /\ UNCHANGED <<hideVars, dialogVars, viewVars, mgrVars, counter, text_bold_default, styleVars, btnVars, histVars>>

\* the colour handlers as they would be if current_annotation were the last
\* shape committed
ColorChanged_recolours(c) ==
    /\ tb_current_color' = c
    /\ annotations' = [i \in DOMAIN annotations |->
                          IF i = Len(annotations)
                          THEN [annotations[i] EXCEPT !.color = c]
                          ELSE annotations[i]]
    /\ last' = Event("color", 0, NoPoint, "None", NoDialog, "none", "None")
    /\ UNCHANGED <<hideVars, dialogVars, viewVars, undo_stack, redo_stack, max_history, counter,
                   pendingVars, toolVars, text_bold_default,
                   tb_current_line_width, tb_current_arrow_style, btnVars, histVars>>

\* toolbar._on_color_changed, then plugin._on_color_changed: the plugin's
\* current_annotation is always None, so no shape is recoloured.
ColorChanged(c) ==
    /\ tb_current_color' = c
    /\ last' = Event("color", 0, NoPoint, "None", NoDialog, "none", "None")
    /\ UNCHANGED <<hideVars, dialogVars, viewVars, mgrVars, counter, pendingVars, toolVars, text_bold_default,
                   tb_current_line_width, tb_current_arrow_style, btnVars, histVars>>

LineWidthChanged(w) ==
    /\ tb_current_line_width' = w
    /\ last' = Event("line_width", 0, NoPoint, "None", NoDialog, "none", "None")
    /\ UNCHANGED <<hideVars, dialogVars, viewVars, mgrVars, counter, pendingVars, toolVars, text_bold_default,
                   tb_current_color, tb_current_arrow_style, btnVars, histVars>>

ArrowStyleChanged(s) ==
    /\ tb_current_arrow_style' = s
    /\ last' = Event("arrow_style", 0, NoPoint, "None", NoDialog, "none", "None")
    /\ UNCHANGED <<hideVars, dialogVars, viewVars, mgrVars, counter, pendingVars, toolVars, text_bold_default,
                   tb_current_color, tb_current_line_width, btnVars, histVars>>

(***************************************************************************)
(* AnnotationPlugin: undo, redo and clear-all requests.  last.ret is what  *)
(* the manager's undo() / redo() returned.                                 *)
(***************************************************************************)
\* _on_undo_clicked as it would be if an undo rolled the Dot counter back
UndoClicked_rolls_back ==
    LET r == undo(Mgr)
        dots == {i \in DOMAIN r.m.annotations : r.m.annotations[i].tool_type = "dot"}
    IN /\ SetMgr(r.m)
       /\ IF r.ret THEN update_undo_redo_buttons(r.m) ELSE UNCHANGED btnVars
       /\ counter' = IF r.ret THEN Cardinality(dots) + 1 ELSE counter
       /\ last' = Event("undo", 0, NoPoint, "None", NoDialog, "undo", Str(r.ret))
       /\ ur' = UrAfter("undo", r.ret)
       /\ UNCHANGED <<hideVars, dialogVars, viewVars, pendingVars, toolVars, text_bold_default, styleVars, lastDotSeq>>

\* _on_undo_clicked as it would be if an undo dropped the pending shape
UndoClicked_drops_pending ==
    LET r == undo(Mgr)
    IN /\ SetMgr(r.m)
       /\ IF r.ret THEN update_undo_redo_buttons(r.m) ELSE UNCHANGED btnVars
       /\ shape_start_point' = NoPoint
       /\ shape_preview_end' = NoPoint
       /\ shape_type' = "None"
       /\ last' = Event("undo", 0, NoPoint, "None", NoDialog, "undo", Str(r.ret))
       /\ ur' = UrAfter("undo", r.ret)
       /\ UNCHANGED <<hideVars, dialogVars, viewVars, counter, toolVars, text_bold_default, styleVars, lastDotSeq>>

UndoClicked ==
    LET r == undo(Mgr)
    IN /\ SetMgr(r.m)
       /\ IF r.ret THEN update_undo_redo_buttons(r.m) ELSE UNCHANGED btnVars
       /\ last' = Event("undo", 0, NoPoint, "None", NoDialog, "undo", Str(r.ret))
       /\ ur' = UrAfter("undo", r.ret)
       /\ UNCHANGED <<hideVars, dialogVars, viewVars, counter, pendingVars, toolVars, text_bold_default, styleVars, lastDotSeq>>

RedoClicked ==
    LET r == redo(Mgr)
    IN /\ SetMgr(r.m)
       /\ IF r.ret THEN update_undo_redo_buttons(r.m) ELSE UNCHANGED btnVars
       /\ last' = Event("redo", 0, NoPoint, "None", NoDialog, "redo", Str(r.ret))
       /\ ur' = UrAfter("redo", r.ret)
       /\ UNCHANGED <<hideVars, dialogVars, viewVars, counter, pendingVars, toolVars, text_bold_default, styleVars, lastDotSeq>>

ClearClicked ==
    /\ LET m == clear(Mgr)
       IN SetMgr(m) /\ update_undo_redo_buttons(m)
    /\ counter' = 1
    /\ lastDotSeq' = 0
    /\ ur' = UrAfter("clear", TRUE)
    /\ last' = Event("clear", 0, NoPoint, "None", NoDialog, "clear", "None")
    /\ UNCHANGED <<hideVars, dialogVars, viewVars, pendingVars, toolVars, text_bold_default, styleVars>>

(***************************************************************************)
(* AnnotationPlugin._on_button_press, branch by branch.                    *)
(***************************************************************************)
\* the ignored press as it would be if it stopped the event
PressIgnored_consumes(button, p) ==
    /\ current_tool \in {"None", ""} \/ button # 1
    /\ last' = Event("press", button, p, current_tool, NoDialog, "none", "True")
    /\ UNCHANGED <<hideVars, dialogVars, viewVars, mgrVars, counter, pendingVars, toolVars, text_bold_default,
                   styleVars, btnVars, histVars>>

\* no tool armed, or a button other than the left one: not handled
PressIgnored(button, p) ==
    /\ current_tool \in {"None", ""} \/ button # 1
    /\ last' = Event("press", button, p, current_tool, NoDialog, "none", "False")
    /\ UNCHANGED <<hideVars, dialogVars, viewVars, mgrVars, counter, pendingVars, toolVars, text_bold_default,
                   styleVars, btnVars, histVars>>

\* the first click as it would be without the preview point initialised
PressFirst_without_preview(button, p) ==
    /\ current_tool \in TwoClickTools /\ button = 1
    /\ shape_start_point = NoPoint
    /\ shape_start_point' = p
    /\ shape_type' = current_tool
    /\ last' = Event("press", button, p, current_tool, NoDialog, "none", "True")
    /\ UNCHANGED <<hideVars, dialogVars, viewVars, mgrVars, counter, toolVars, text_bold_default, styleVars,
                   btnVars, histVars, shape_preview_end>>

\* first click of arrow / rectangle / circle
PressFirst(button, p) ==
    /\ current_tool \in TwoClickTools /\ button = 1
    /\ shape_start_point = NoPoint
    /\ shape_start_point' = p
    /\ shape_preview_end' = p
    /\ shape_type' = current_tool
    /\ last' = Event("press", button, p, current_tool, NoDialog, "none", "True")
    /\ UNCHANGED <<hideVars, dialogVars, viewVars, mgrVars, counter, toolVars, text_bold_default, styleVars,
                   btnVars, histVars>>

\* the second click's shape as it would be if built from the preview point
SecondClickShape_from_preview(p) ==
    Annotation(shape_type, shape_start_point[1], shape_start_point[2],
               shape_preview_end[1], shape_preview_end[2],
               tb_current_color, "", FALSE, tb_current_line_width,
               IF shape_type = "arrow" THEN tb_current_arrow_style ELSE 0)

\* the shape the second click builds
SecondClickShape(p) ==
    Annotation(shape_type, shape_start_point[1], shape_start_point[2], p[1], p[2],
               tb_current_color, "", FALSE, tb_current_line_width,
               IF shape_type = "arrow" THEN tb_current_arrow_style ELSE 0)

\* second click of arrow / rectangle / circle
PressSecond(button, p) ==
    /\ current_tool \in TwoClickTools /\ button = 1
    /\ shape_start_point # NoPoint
    /\ LET m == add_annotation(Mgr, SecondClickShape(p))
       IN SetMgr(m) /\ update_undo_redo_buttons(m)
    /\ shape_start_point' = NoPoint
    /\ shape_preview_end' = NoPoint
    /\ shape_type' = "None"
    /\ last' = Event("press", button, p, current_tool, NoDialog, "add", "True")
    /\ ur' = UrAfter("add", TRUE)
    /\ UNCHANGED <<hideVars, dialogVars, viewVars, counter, toolVars, text_bold_default, styleVars, lastDotSeq>>

\* the Dot as it would be if built without a number
DotShape_unnumbered(p) ==
    Annotation("dot", p[1], p[2], NoNum, NoNum, tb_current_color, "", FALSE,
               tb_current_line_width, 0)

\* the Dot a click builds: numbered from the plugin's counter
DotShape(p) ==
    [Annotation("dot", p[1], p[2], NoNum, NoNum, tb_current_color, "", FALSE,
                tb_current_line_width, 0) EXCEPT !.counter = counter]

\* the counter as it would be if a Dot commit did not advance it
NextCounter_stuck == counter

NextCounter == counter + 1

PressDot(button, p) ==
    /\ current_tool = "dot" /\ button = 1
    /\ LET m == add_annotation(Mgr, DotShape(p))
       IN SetMgr(m) /\ update_undo_redo_buttons(m)
    /\ counter' = NextCounter
    /\ lastDotSeq' = DotShape(p).counter
    /\ ur' = UrAfter("add", TRUE)
    /\ last' = Event("press", button, p, current_tool, NoDialog, "add", "True")
    /\ UNCHANGED <<hideVars, dialogVars, viewVars, pendingVars, toolVars, text_bold_default, styleVars>>

\* the dialog result that lets the text branch commit
\* the commit condition as it would be if it did not look at the text
DialogAccepted_any_text(d) == d.response = "OK"

DialogAccepted(d) == d.response = "OK" /\ d.text # ""

TextShape(p, d) ==
    Annotation("text", p[1], p[2], NoNum, NoNum, tb_current_color, d.text, d.bold,
               tb_current_line_width, 0)

\* the text branch once dialog.run() has returned d
TextCommit(button, p, d) ==
    /\ IF DialogAccepted(d)
       THEN /\ text_bold_default' = d.bold
            /\ LET m == add_annotation(Mgr, TextShape(p, d))
               IN SetMgr(m) /\ update_undo_redo_buttons(m)
            /\ last' = Event("press", button, p, current_tool, d, "add", "True")
            /\ ur' = UrAfter("add", TRUE)
       ELSE /\ UNCHANGED <<mgrVars, text_bold_default, btnVars, ur>>
            /\ last' = Event("press", button, p, current_tool, d, "none", "True")
    /\ UNCHANGED <<hideVars, viewVars, counter, pendingVars, toolVars, styleVars, lastDotSeq>>

\* the text branch taken in one step: nothing runs while the dialog is open
PressText(button, p, d) ==
    /\ current_tool = "text" /\ button = 1
    /\ TextCommit(button, p, d)
    /\ UNCHANGED dialogVars

\* the text branch as it would be if it took the snapshot before the dialog
PressTextOpen_saves_first(button, p) ==
    /\ current_tool = "text" /\ button = 1
    /\ dialog_at = NoPoint
    /\ dialog_at' = p
    /\ entry' = Mgr
    /\ SetMgr(save_state(Mgr))
    /\ last' = Event("dialog_run", button, p, current_tool, NoDialog, "none", "None")
    /\ UNCHANGED <<hideVars, viewVars, counter, pendingVars, toolVars, text_bold_default,
                   styleVars, btnVars, histVars>>

\* The text branch in two steps.  dialog.run() runs a main loop of its own
\* until the dialog is answered: the handler is suspended there, before it
\* has called the manager, and the view is repainted meanwhile.
PressTextOpen(button, p) ==
    /\ current_tool = "text" /\ button = 1
    /\ dialog_at = NoPoint
    /\ dialog_at' = p
    /\ entry' = Mgr
    /\ last' = Event("dialog_run", button, p, current_tool, NoDialog, "none", "None")
    /\ UNCHANGED <<hideVars, viewVars, mgrVars, counter, pendingVars, toolVars,
                   text_bold_default, styleVars, btnVars, histVars>>

PressTextRespond(d) ==
    /\ dialog_at # NoPoint
    /\ TextCommit(1, dialog_at, d)
    /\ dialog_at' = NoPoint
    /\ entry' = NoEntry

ButtonPress(button, p) ==
    \/ PressIgnored(button, p)
    \/ PressFirst(button, p)
    \/ PressSecond(button, p)
    \/ PressDot(button, p)
    \/ \E d \in DialogResults : PressText(button, p, d)

\* AnnotationPlugin._on_button_release reads nothing of the event
ButtonRelease ==
    /\ last' = Event("release", 0, NoPoint, "None", NoDialog, "none", "False")
    /\ UNCHANGED <<hideVars, dialogVars, viewVars, mgrVars, counter, pendingVars, toolVars, text_bold_default,
                   styleVars, btnVars, histVars>>

\* _on_motion as it would be if it stopped every motion event
Motion_always_consumes(p) ==
    /\ shape_preview_end' = IF shape_start_point # NoPoint THEN p ELSE shape_preview_end
    /\ last' = Event("motion", 0, p, current_tool, NoDialog, "none", "True")
    /\ UNCHANGED <<hideVars, dialogVars, viewVars, mgrVars, counter, shape_start_point, shape_type, toolVars,
                   text_bold_default, styleVars, btnVars, histVars>>

\* _on_motion as it would be if it followed the pointer with no shape pending
Motion_previews_always(p) ==
    /\ shape_preview_end' = p
    /\ last' = Event("motion", 0, p, current_tool, NoDialog, "none",
                     Str(shape_start_point # NoPoint))
    /\ UNCHANGED <<hideVars, dialogVars, viewVars, mgrVars, counter, shape_start_point, shape_type, toolVars,
                   text_bold_default, styleVars, btnVars, histVars>>

\* AnnotationPlugin._on_motion
Motion(p) ==
    /\ IF shape_start_point # NoPoint
       THEN /\ shape_preview_end' = p
            /\ last' = Event("motion", 0, p, current_tool, NoDialog, "none", "True")
       ELSE /\ shape_preview_end' = shape_preview_end
            /\ last' = Event("motion", 0, p, current_tool, NoDialog, "none", "False")
    /\ UNCHANGED <<hideVars, dialogVars, viewVars, mgrVars, counter, shape_start_point, shape_type, toolVars,
                   text_bold_default, styleVars, btnVars, histVars>>

(***************************************************************************)
(* Repaint.  Annotation.draw is kept as the record of the call: the shape  *)
(* drawn and the scale factors it was drawn with, each factor a fraction   *)
(* <<numerator, denominator>>.                                             *)
(***************************************************************************)
One == <<1, 1>>

\* The numbers the drawing code computes are kept exact, as fractions: a
\* coordinate times a scale factor, a difference, a product, a sum.
\* Each is kept in lowest terms.
RECURSIVE Gcd(_, _)
Gcd(a, b) == IF b = 0 THEN a ELSE Gcd(b, a % b)

Lowest(f) ==
    LET g == Gcd(IF f[1] < 0 THEN -f[1] ELSE f[1], f[2])
    IN <<f[1] \div g, f[2] \div g>>

Times(n, f) == Lowest(<<n * f[1], f[2]>>)
Minus(f, g) == Lowest(<<f[1] * g[2] - g[1] * f[2], f[2] * g[2]>>)
Plus(f, g) == Lowest(<<f[1] * g[2] + g[1] * f[2], f[2] * g[2]>>)
Square(f) == Lowest(<<f[1] * f[1], f[2] * f[2]>>)
Min(a, b) == IF a <= b THEN a ELSE b
Max(a, b) == IF a >= b THEN a ELSE b

\* Annotation._draw_arrow: nothing without a second point; the shaft from
\* the scaled first point to the scaled second point, and the head style
draw_arrow(a, scale_x, scale_y) ==
    IF a.x2 = NoNum \/ a.y2 = NoNum THEN <<>>
    ELSE << [op |-> "arrow",
             x1 |-> Times(a.x1, scale_x), y1 |-> Times(a.y1, scale_y),
             x2 |-> Times(a.x2, scale_x), y2 |-> Times(a.y2, scale_y),
             style |-> a.arrow_style] >>

\* Annotation._draw_dot: a disc of radius 15 at the scaled point, then the
\* number when the Dot has one
draw_dot(a, scale_x, scale_y) ==
    << [op |-> "dot", x |-> Times(a.x1, scale_x), y |-> Times(a.y1, scale_y),
        radius |-> 15, number |-> a.counter] >>

\* _draw_rectangle as it would be if it took the first point as the origin
draw_rectangle_from_first_point(a, scale_x, scale_y) ==
    IF a.x2 = NoNum \/ a.y2 = NoNum THEN <<>>
    ELSE LET x1 == Times(a.x1, scale_x)
             y1 == Times(a.y1, scale_y)
             x2 == Times(a.x2, scale_x)
             y2 == Times(a.y2, scale_y)
         IN << [op |-> "rectangle", x |-> x1, y |-> y1,
                width |-> Minus(x2, x1), height |-> Minus(y2, y1)] >>

\* Annotation._draw_rectangle: nothing without a second point; the stroked
\* rectangle's origin, width and height
draw_rectangle(a, scale_x, scale_y) ==
    IF a.x2 = NoNum \/ a.y2 = NoNum THEN <<>>
    ELSE LET x1 == Times(Min(a.x1, a.x2), scale_x)
             y1 == Times(Min(a.y1, a.y2), scale_y)
             x2 == Times(Max(a.x1, a.x2), scale_x)
             y2 == Times(Max(a.y1, a.y2), scale_y)
         IN << [op |-> "rectangle", x |-> x1, y |-> y1,
                width |-> Minus(x2, x1), height |-> Minus(y2, y1)] >>

\* _draw_circle as it would be if it took the radius before scaling
draw_circle_unscaled_radius(a, scale_x, scale_y) ==
    IF a.x2 = NoNum \/ a.y2 = NoNum THEN <<>>
    ELSE << [op |-> "arc",
             cx |-> Times(a.x1, scale_x), cy |-> Times(a.y1, scale_y),
             radius_sq |-> Plus(Square(<<a.x2 - a.x1, 1>>),
                                Square(<<a.y2 - a.y1, 1>>))] >>

\* Annotation._draw_circle: nothing without a second point; the stroked
\* circle's centre and its radius, kept as the square the code takes the
\* root of
draw_circle(a, scale_x, scale_y) ==
    IF a.x2 = NoNum \/ a.y2 = NoNum THEN <<>>
    ELSE LET dx == Times(a.x2 - a.x1, scale_x)
             dy == Times(a.y2 - a.y1, scale_y)
         IN << [op |-> "arc",
                cx |-> Times(a.x1, scale_x), cy |-> Times(a.y1, scale_y),
                radius_sq |-> Plus(Square(dx), Square(dy))] >>

\* Annotation._draw_text: nothing without text; the text at the scaled
\* point, its size scaled by the horizontal factor
draw_text(a, scale_x, scale_y) ==
    IF a.text = "" THEN <<>>
    ELSE << [op |-> "text", x |-> Times(a.x1, scale_x), y |-> Times(a.y1, scale_y),
             text |-> a.text, size |-> Times(a.text_size, scale_x),
             bold |-> a.text_bold, italic |-> a.text_italic] >>

\* Annotation.draw: the call (shape and scale factors) and what it puts on
\* the canvas
draw(annotation, scale_x, scale_y) ==
    [shape |-> annotation, scale_x |-> scale_x, scale_y |-> scale_y,
     path |-> CASE annotation.tool_type = "arrow" ->
                      draw_arrow(annotation, scale_x, scale_y)
                [] annotation.tool_type = "dot" ->
                      draw_dot(annotation, scale_x, scale_y)
                [] annotation.tool_type = "rectangle" ->
                      draw_rectangle(annotation, scale_x, scale_y)
                [] annotation.tool_type = "circle" ->
                      draw_circle(annotation, scale_x, scale_y)
                [] annotation.tool_type = "text" ->
                      draw_text(annotation, scale_x, scale_y)
                [] OTHER -> <<>>]

\* A call of Annotation.draw on its own: a rectangle or a circle between
\* two points of the grid, and two scale factors.
GeomScales == {<<1, 1>>, <<2, 1>>, <<1, 2>>, <<3, 2>>}

GeomShape(tool_type, x1, y1, x2, y2) ==
    Annotation(tool_type, x1, y1, x2, y2, <<0, 0, 1>>, "", FALSE, 2, 0)

DrawRequest ==
    /\ last.op = "init"
    /\ \E t \in {"rectangle", "circle"}, x1, y1, x2, y2 \in 0..MaxCoord,
          scale_x, scale_y \in GeomScales :
          last' = [Event("draw_request", 0, NoPoint, "None", NoDialog, "none", "None")
                      EXCEPT !.out = << [shape |-> GeomShape(t, x1, y1, x2, y2),
                                         scale_x |-> scale_x,
                                         scale_y |-> scale_y] >>]
    /\ UNCHANGED <<hideVars, dialogVars, viewVars, mgrVars, counter, pendingVars, toolVars,
                   text_bold_default, styleVars, btnVars, histVars>>

DrawShape ==
    /\ last.op = "draw_request"
    /\ last' = [last EXCEPT !.op = "draw_shape",
                            !.out = << draw(last.out[1].shape, last.out[1].scale_x,
                                            last.out[1].scale_y) >>]
    /\ UNCHANGED <<hideVars, dialogVars, viewVars, mgrVars, counter, pendingVars, toolVars,
                   text_bold_default, styleVars, btnVars, histVars>>

\* the preview shape as it would be if built with the default settings
PreviewShape_with_defaults ==
    Annotation(shape_type, shape_start_point[1], shape_start_point[2],
               shape_preview_end[1], shape_preview_end[2],
               <<0, 0, 1>>, "", FALSE, 2, 0)

\* the temporary shape _on_view_draw builds for the preview
PreviewShape ==
    Annotation(shape_type, shape_start_point[1], shape_start_point[2],
               shape_preview_end[1], shape_preview_end[2],
               tb_current_color, "", FALSE, tb_current_line_width,
               IF shape_type = "arrow" THEN tb_current_arrow_style ELSE 0)

\* the condition under which _on_view_draw draws the preview
HasPreview ==
    shape_start_point # NoPoint /\ shape_preview_end # NoPoint /\ shape_type # "None"

\* the draw calls of one repaint, in the order _on_view_draw makes them
DrawCalls ==
    [i \in 1..Len(annotations) |-> draw(annotations[i], One, One)]
    \o (IF HasPreview THEN <<draw(PreviewShape, One, One)>> ELSE <<>>)

\* the calls completed when call number fail_at raises (0: none raises)
Completed(calls, fail_at) ==
    IF fail_at \in 1..Len(calls) THEN SubSeq(calls, 1, fail_at - 1) ELSE calls

\* _on_view_draw as it would be if it committed the preview it draws
ViewDraw_commits_preview(fail_at) ==
    /\ last' = [Event("draw", 0, NoPoint, current_tool, NoDialog, "none", "False")
                    EXCEPT !.out = Completed(DrawCalls, fail_at),
                           !.err = fail_at \in 1..Len(DrawCalls)]
    /\ annotations' = IF HasPreview THEN Append(annotations, PreviewShape)
                      ELSE annotations
    /\ UNCHANGED <<hideVars, dialogVars, viewVars, undo_stack, redo_stack, max_history, counter,
                   pendingVars, toolVars, text_bold_default, styleVars, btnVars,
                   histVars>>

\* _on_view_draw as it would be without its try/except
ViewDraw_unguarded(fail_at) ==
    /\ last' = [Event("draw", 0, NoPoint, current_tool, NoDialog, "none",
                      IF fail_at \in 1..Len(DrawCalls) THEN "raise" ELSE "False")
                    EXCEPT !.out = Completed(DrawCalls, fail_at),
                           !.err = fail_at \in 1..Len(DrawCalls)]
    /\ UNCHANGED <<hideVars, dialogVars, viewVars, mgrVars, counter, pendingVars, toolVars,
                   text_bold_default, styleVars, btnVars, histVars>>

\* AnnotationManager._on_view_draw: draws inside try/except, returns False
ViewDraw(fail_at) ==
    /\ last' = [Event("draw", 0, NoPoint, current_tool, NoDialog, "none", "False")
                    EXCEPT !.out = Completed(DrawCalls, fail_at),
                           !.err = fail_at \in 1..Len(DrawCalls)]
    /\ UNCHANGED <<hideVars, dialogVars, viewVars, mgrVars, counter, pendingVars, toolVars, text_bold_default,
                   styleVars, btnVars, histVars>>

(***************************************************************************)
(* Export.  An export environment e is what the host answers: whether the  *)
(* window has an image, the image a file and a pixbuf, and the plugin a    *)
(* view; the sizes of the pixbuf and of the view; the path of the image    *)
(* file, a string of characters (empty when it has none); the draw call    *)
(* that raises (fail_at: 0 for none, one past the last call for a failure  *)
(* while the surface is converted back to a pixbuf); and whether the       *)
(* encoder raises when it writes the file.                                 *)
(***************************************************************************)
GoodEnv ==
    [image |-> TRUE, file_info |-> TRUE, pixbuf |-> TRUE, image_view |-> TRUE,
     img_width |-> 4, img_height |-> 6, view_width |-> 2, view_height |-> 2,
     file_path |-> <<"/", "a", "/", "b", ".", "p", "n", "g">>,
     fail_at |-> 0, encoder_error |-> FALSE]

\* the sizes an export finds: a view of 100 x 100 or 50 x 100 showing an
\* image of 200 x 200 or 200 x 300, and a view without width or height
SizedEnvs ==
    { [GoodEnv EXCEPT !.img_width = 200, !.img_height = ih,
                      !.view_width = vw, !.view_height = vh] :
        ih \in {200, 300}, vw \in {0, 50, 100}, vh \in {0, 100} }

\* the ways an export fails: no image, no file, no path, no pixbuf, no view,
\* a draw call or the conversion raising, the encoder raising
FailingEnvs ==
    { [GoodEnv EXCEPT !.image = FALSE], [GoodEnv EXCEPT !.file_info = FALSE],
      [GoodEnv EXCEPT !.file_path = <<>>], [GoodEnv EXCEPT !.pixbuf = FALSE],
      [GoodEnv EXCEPT !.image_view = FALSE], [GoodEnv EXCEPT !.fail_at = 1],
      [GoodEnv EXCEPT !.encoder_error = TRUE] }

ExportEnvs == SizedEnvs \cup FailingEnvs

\* os.path.splitext on a POSIX path: the extension starts at the last dot
\* of the last component, unless only dots precede it there
rfind(p, c) ==
    IF \E i \in 1..Len(p) : p[i] = c
    THEN CHOOSE i \in 1..Len(p) : p[i] = c /\ \A j \in (i + 1)..Len(p) : p[j] # c
    ELSE 0

splitext(p) ==
    LET sepIndex == rfind(p, "/")
        dotIndex == rfind(p, ".")
    IN IF dotIndex > sepIndex /\ \E k \in (sepIndex + 1)..(dotIndex - 1) : p[k] # "."
       THEN <<SubSeq(p, 1, dotIndex - 1), SubSeq(p, dotIndex, Len(p))>>
       ELSE <<p, <<>>>>

\* str.lower, on the letters file paths are made of here
lower(s) ==
    [i \in 1..Len(s) |->
        CASE s[i] = "J" -> "j" [] s[i] = "P" -> "p" [] s[i] = "G" -> "g"
          [] s[i] = "E" -> "e" [] s[i] = "N" -> "n" [] s[i] = "X" -> "x"
          [] OTHER -> s[i]]

Annotated == <<"-", "a", "n", "n", "o", "t", "a", "t", "e", "d">>
DotJpg == <<".", "j", "p", "g">>
DotJpeg == <<".", "j", "p", "e", "g">>
DotPng == <<".", "p", "n", "g">>

\* _on_save_clicked as it would be if the fallback kept the unknown extension
save_target_appends_png(file_path) ==
    LET base == splitext(file_path)[1]
        ext == splitext(file_path)[2]
        output_path == base \o Annotated \o ext
    IN IF lower(ext) \in {DotJpg, DotJpeg}
       THEN [path |-> output_path, encoder |-> "jpeg", quality |-> 95]
       ELSE IF lower(ext) = DotPng
       THEN [path |-> output_path, encoder |-> "png", quality |-> NoNum]
       ELSE [path |-> output_path \o DotPng, encoder |-> "png", quality |-> NoNum]

\* _on_save_clicked, the file it writes: its path, the encoder, the quality
save_target(file_path) ==
    LET base == splitext(file_path)[1]
        ext == splitext(file_path)[2]
        output_path == base \o Annotated \o ext
    IN IF lower(ext) \in {DotJpg, DotJpeg}
       THEN [path |-> output_path, encoder |-> "jpeg", quality |-> 95]
       ELSE IF lower(ext) = DotPng
       THEN [path |-> output_path, encoder |-> "png", quality |-> NoNum]
       ELSE [path |-> splitext(output_path)[1] \o DotPng,
             encoder |-> "png", quality |-> NoNum]

\* _render_annotations_to_pixbuf as it would be if it drew the preview too
render_annotations_to_pixbuf_with_preview(e) ==
    LET scale_x == <<e.img_width, Max(e.view_width, 1)>>
        scale_y == <<e.img_height, Max(e.view_height, 1)>>
        calls == [i \in 1..Len(annotations) |->
                     draw(annotations[i], scale_x, scale_y)]
                 \o (IF HasPreview THEN <<draw(PreviewShape, scale_x, scale_y)>>
                     ELSE <<>>)
    IN IF ~e.image \/ ~e.pixbuf \/ ~e.image_view
       THEN [pixbuf |-> FALSE, calls |-> <<>>, err |-> FALSE]
       ELSE [pixbuf |-> e.fail_at = 0,
             calls |-> Completed(calls, e.fail_at),
             err |-> e.fail_at # 0]

\* _render_annotations_to_pixbuf as it would be if it took one factor, the
\* horizontal one, for both axes
render_annotations_to_pixbuf_one_scale(e) ==
    IF ~e.image \/ ~e.pixbuf \/ ~e.image_view
    THEN [pixbuf |-> FALSE, calls |-> <<>>, err |-> FALSE]
    ELSE LET scale_x == <<e.img_width, Max(e.view_width, 1)>>
             calls == [i \in 1..Len(annotations) |->
                          draw(annotations[i], scale_x, scale_x)]
         IN [pixbuf |-> e.fail_at = 0,
             calls |-> Completed(calls, e.fail_at),
             err |-> e.fail_at # 0]

\* _render_annotations_to_pixbuf as it would be if it did not ask for the view
render_annotations_to_pixbuf_without_view(e) ==
    IF ~e.image \/ ~e.pixbuf
    THEN [pixbuf |-> FALSE, calls |-> <<>>, err |-> FALSE]
    ELSE LET scale_x == <<e.img_width, Max(e.view_width, 1)>>
             scale_y == <<e.img_height, Max(e.view_height, 1)>>
             calls == [i \in 1..Len(annotations) |->
                          draw(annotations[i], scale_x, scale_y)]
         IN [pixbuf |-> e.fail_at = 0,
             calls |-> Completed(calls, e.fail_at),
             err |-> e.fail_at # 0]

\* AnnotationPlugin._render_annotations_to_pixbuf: whether a pixbuf is
\* returned, the draw calls made, and whether an exception was caught
render_annotations_to_pixbuf(e) ==
    IF ~e.image \/ ~e.pixbuf \/ ~e.image_view
    THEN [pixbuf |-> FALSE, calls |-> <<>>, err |-> FALSE]
    ELSE LET scale_x == <<e.img_width, Max(e.view_width, 1)>>
             scale_y == <<e.img_height, Max(e.view_height, 1)>>
             calls == [i \in 1..Len(annotations) |->
                          draw(annotations[i], scale_x, scale_y)]
         IN [pixbuf |-> e.fail_at = 0,
             calls |-> Completed(calls, e.fail_at),
             err |-> e.fail_at # 0]

\* AnnotationPlugin._on_copy_clicked: the pixbuf, when there is one, goes to
\* the clipboard; the handler returns None
CopyClicked(e) ==
    /\ LET r == render_annotations_to_pixbuf(e)
       IN last' = [Event("copy", 0, NoPoint, current_tool, NoDialog, "none", "None")
                      EXCEPT !.env = e, !.out = r.calls, !.err = r.err,
                             !.done = r.pixbuf]
    /\ UNCHANGED <<hideVars, dialogVars, viewVars, mgrVars, counter, pendingVars, toolVars, text_bold_default,
                   styleVars, btnVars, histVars>>

\* AnnotationPlugin._on_save_clicked: without an image, a file or a file
\* path nothing is rendered; the pixbuf, when there is one, is written to
\* the file, unless the encoder raises; the handler returns None
SaveClicked(e) ==
    /\ LET r == IF ~e.image \/ ~e.file_info \/ e.file_path = <<>>
                THEN [pixbuf |-> FALSE, calls |-> <<>>, err |-> FALSE]
                ELSE render_annotations_to_pixbuf(e)
           written == r.pixbuf /\ ~e.encoder_error
       IN last' = [Event("save", 0, NoPoint, current_tool, NoDialog, "none", "None")
                      EXCEPT !.env = e, !.out = r.calls,
                             !.err = r.err \/ (r.pixbuf /\ e.encoder_error),
                             !.done = written,
                             !.file = IF written THEN save_target(e.file_path)
                                      ELSE NoFile]
    /\ UNCHANGED <<hideVars, dialogVars, viewVars, mgrVars, counter, pendingVars, toolVars, text_bold_default,
                   styleVars, btnVars, histVars>>

(***************************************************************************)
(* The specifications.  The handlers above are unguarded, as in the code;  *)
(* a specification keeps a run finite by taking a step that pushes a       *)
(* snapshot only while the undo stack stays within MaxHistory entries and  *)
(* a Dot commit only while the counter stays within MaxCounter + 1.        *)
(***************************************************************************)
InBounds(depth) == Len(undo_stack) <= depth /\ counter <= MaxCounter + 1

\* Spec: every handler; the tool buttons clicked are those of SpecTools
\* (one two-click tool and both one-click tools) and the pointer is at Origin.
Next ==
    \/ \E t \in SpecTools : ToolToggled(t)
    \/ \E c \in Colors : ColorChanged(c)
    \/ \E w \in LineWidths : LineWidthChanged(w)
    \/ \E s \in ArrowStyles : ArrowStyleChanged(s)
    \/ UndoClicked
    \/ RedoClicked
    \/ ClearClicked /\ InBounds(MaxHistory)'
    \/ \E b \in Buttons : ButtonPress(b, Origin) /\ InBounds(MaxHistory)'
    \/ ButtonRelease
    \/ Motion(Origin)
    \/ ViewDraw(0)
    \/ CopyClicked(GoodEnv)
    \/ SaveClicked(GoodEnv)

Spec == Init /\ [][Next]_vars

\* SpecFollowed: the runs of Spec, with ur following the manager calls.
SpecFollowed == InitFollowed /\ [][Next]_vars

\* SpecPointer: every handler; the tool buttons clicked are the two-click
\* tools, the pointer is at either of Points, any draw call of a repaint may
\* raise, and the history is shorter.
NextPointer ==
    \/ \E t \in TwoClickTools : ToolToggled(t)
    \/ \E c \in Colors : ColorChanged(c)
    \/ \E w \in LineWidths : LineWidthChanged(w)
    \/ \E s \in ArrowStyles : ArrowStyleChanged(s)
    \/ UndoClicked
    \/ RedoClicked
    \/ ClearClicked /\ InBounds(MaxPointerHistory)'
    \/ \E b \in Buttons, p \in Points : ButtonPress(b, p) /\ InBounds(MaxPointerHistory)'
    \/ ButtonRelease
    \/ \E p \in Points : Motion(p)
    \/ \E f \in 0..Len(DrawCalls) : ViewDraw(f)
    \/ CopyClicked(GoodEnv)
    \/ SaveClicked(GoodEnv)

SpecPointer == Init /\ [][NextPointer]_vars

\* SpecView: the manager is bound, rebound and unbound by set_view while
\* Dots are committed, cleared, undone and redone and the view repaints,
\* until do_deactivate drops the manager; the handler ids stay within
\* MaxHandlerId.
ViewInBounds ==
    /\ Len(undo_stack) <= MaxViewHistory
    /\ counter <= MaxCounter + 1
    /\ next_handler_id <= MaxHandlerId + 1

NextView ==
    \/ activated /\ (\E v \in Views \cup {NoView} : SetView(v)) /\ ViewInBounds'
    \/ activated /\ Deactivate
    \/ activated /\ ToolToggled("dot")
    \/ activated /\ (\E b \in Buttons : ButtonPress(b, Origin)) /\ ViewInBounds'
    \/ activated /\ ClearClicked /\ ViewInBounds'
    \/ activated /\ UndoClicked
    \/ activated /\ RedoClicked
    \/ activated /\ ViewDraw(0)

SpecView == Init /\ [][NextView]_vars

\* SpecDraw: repaints while shapes are committed under changing color,
\* width and head style; presses are at Origin, the pointer moves to either
\* of Points.
NextDraw ==
    \/ \E t \in DrawTools : ToolToggled(t)
    \/ \E c \in DrawColors : ColorChanged(c)
    \/ \E w \in DrawLineWidths : LineWidthChanged(w)
    \/ \E s \in DrawArrowStyles : ArrowStyleChanged(s)
    \/ ButtonPress(1, Origin) /\ InBounds(MaxDrawHistory)'
    \/ \E p \in Points : Motion(p)
    \/ ViewDraw(0)

SpecDraw == Init /\ [][NextDraw]_vars

\* SpecStyle: arrows are committed, undone and redone while the colour, the
\* width and the head style are changed.
NextStyle ==
    \/ ToolToggled("arrow")
    \/ \E c \in DrawColors : ColorChanged(c)
    \/ \E w \in DrawLineWidths : LineWidthChanged(w)
    \/ \E s \in DrawArrowStyles : ArrowStyleChanged(s)
    \/ ButtonPress(1, Origin) /\ InBounds(MaxDrawHistory)'
    \/ UndoClicked
    \/ RedoClicked

SpecStyle == Init /\ [][NextStyle]_vars

\* SpecHide: the zoom and the fullscreen state change while Dots are
\* committed and undone.
Zooms == {500, 990, 991, 1000, 1009, 1010, 2000}

NextHide ==
    \/ \E z \in Zooms : ZoomChanged(z)
    \/ \E changed, fullscreen \in BOOLEAN : WindowStateChanged(changed, fullscreen)
    \/ \E fullscreen \in BOOLEAN : FullscreenChanged(fullscreen)
    \/ ToolToggled("dot")
    \/ ButtonPress(1, Origin) /\ InBounds(MaxDrawHistory)'
    \/ UndoClicked

SpecHide == Init /\ [][NextHide]_vars

\* SpecGeom: one call of Annotation.draw, on any rectangle or circle of the
\* grid with any two of the scale factors.
NextGeom ==
    \/ DrawRequest
    \/ DrawShape

SpecGeom == Init /\ [][NextGeom]_vars

\* SpecCapped: Dots are committed, cleared, undone and redone on a manager
\* whose history is capped at MaxCap snapshots.  A Dot is committed only
\* while the list stays within MaxCounter shapes (an undo of a clear brings
\* back shapes without the counter).
NextCapped ==
    \/ ToolToggled("dot")
    \/ ButtonPress(1, Origin) /\ InBounds(MaxCap)' /\ Len(annotations') <= MaxCounter
    \/ ClearClicked
    \/ UndoClicked
    \/ RedoClicked

SpecCapped == InitCapped /\ [][NextCapped]_vars

\* SpecDialog: texts are committed through the dialog, which stays open
\* while the view is repainted; the dialog is modal, so the toolbar is not
\* clicked until it is answered.
NextDialog ==
    \/ dialog_at = NoPoint /\ ToolToggled("text")
    \/ PressTextOpen(1, Origin)
    \/ \E d \in DialogResults : PressTextRespond(d) /\ InBounds(MaxHistory)'
    \/ dialog_at = NoPoint /\ UndoClicked
    \/ dialog_at = NoPoint /\ RedoClicked
    \/ dialog_at = NoPoint /\ ClearClicked /\ InBounds(MaxHistory)'
    \/ ViewDraw(0)

SpecDialog == Init /\ [][NextDialog]_vars

\* SpecExport: rectangles between (10,10) and (20,20) are committed and
\* undone, and the image is copied and saved in every export environment.
ExportPoints == {<<10, 10>>, <<20, 20>>}

NextExport ==
    \/ ToolToggled("rectangle")
    \/ \E p \in ExportPoints : ButtonPress(1, p) /\ InBounds(MaxExportHistory)'
    \/ UndoClicked
    \/ RedoClicked
    \/ \E e \in ExportEnvs : CopyClicked(e)
    \/ \E e \in ExportEnvs : SaveClicked(e)

SpecExport == Init /\ [][NextExport]_vars

\* SpecSave: the image is saved from every file path made of a stem of at
\* most MaxStemLen characters and one of the endings.
PathChars == {"a", ".", "/"}

RECURSIVE Stems(_)
Stems(n) ==
    IF n = 0 THEN {<<>>}
    ELSE Stems(n - 1) \cup {Append(s, c) : s \in Stems(n - 1), c \in PathChars}

Endings ==
    { <<>>, <<".">>, DotJpg, DotJpeg, DotPng,
      <<".", "J", "P", "G">>, <<".", "J", "p", "e", "G">>, <<".", "P", "n", "G">>,
      <<".", "x", "y", "z">>, <<".", "j", "p", "g", "x">>, <<".", "p", "n">>,
      <<"j", "p", "g">>, <<".", "g", "z">>, <<"p", "n", "g">> }

FilePaths == {s \o x : s \in Stems(MaxStemLen), x \in Endings}

NextSave ==
    \E p \in FilePaths : SaveClicked([GoodEnv EXCEPT !.file_path = p])

SpecSave == Init /\ [][NextSave]_vars

(***************************************************************************)
(*                          Properties                                     *)
(***************************************************************************)

\* C1 (SpecFollowed).  After a run of k add operations that produced the
\* annotation list S, N undos (N <= k) followed by N redos leave the current
\* list equal to S, shape for shape; none of those undos and redos is
\* refused on the way.
C1_UndoRedoRestores ==
    /\ (ur.phase = "redos" /\ ur.redos = ur.undos) => annotations = ur.S
    /\ (ur.phase \in {"adds", "undos"} /\ ur.undos < ur.adds) => can_undo(Mgr)
    /\ (ur.phase \in {"undos", "redos"} /\ ur.redos < ur.undos) => can_redo(Mgr)

C1_Witness ==
    /\ ur.phase = "redos" /\ ur.adds = 2 /\ ur.undos = 2 /\ ur.redos = 2
    /\ Len(annotations) = 2 /\ annotations[1] # annotations[2]

\* C2 (Spec).  can_undo() is false exactly when undo_stack is empty and
\* can_redo() is false exactly when redo_stack is empty; right after an add
\* or a clear the redo stack is empty and can_redo() is false.
C2_CanUndoRedo ==
    /\ ~can_undo(Mgr) <=> undo_stack = <<>>
    /\ ~can_redo(Mgr) <=> redo_stack = <<>>
    /\ last.call \in {"add", "clear"} => redo_stack = <<>> /\ ~can_redo(Mgr)

\* an arrow added after a Dot was committed and undone
C2_Witness ==
    /\ last.call = "add" /\ counter = 2
    /\ Len(annotations) = 1 /\ annotations[1].tool_type = "arrow"
    /\ undo_stack = << <<>> >> /\ redo_stack = <<>>

\* C3 (Spec).  undo() on an empty undo stack, and redo() on an empty redo
\* stack, returns False and leaves the annotations and both stacks as they
\* were; in every other case it returns True.
C3_RefusedUndoRedo ==
    [][ /\ last'.op = "undo" =>
             IF undo_stack = <<>>
             THEN last'.ret = "False" /\ UNCHANGED <<annotations, undo_stack, redo_stack>>
             ELSE last'.ret = "True"
        /\ last'.op = "redo" =>
             IF redo_stack = <<>>
             THEN last'.ret = "False" /\ UNCHANGED <<annotations, undo_stack, redo_stack>>
             ELSE last'.ret = "True" ]_vars

\* an undo refused while the redo stack holds a snapshot
C3_Witness ==
    last.op = "undo" /\ last.ret = "False" /\ undo_stack = <<>> /\ redo_stack # <<>>

\* the Dots of an annotation list, and those of the current list and of
\* every snapshot on either stack
DotsOf(state) == {state[i] : i \in {j \in DOMAIN state : state[j].tool_type = "dot"}}

AllDots ==
    DotsOf(annotations)
    \cup UNION {DotsOf(undo_stack[i]) : i \in DOMAIN undo_stack}
    \cup UNION {DotsOf(redo_stack[i]) : i \in DOMAIN redo_stack}

\* the handled event committed a shape with this tool armed
Committed(ev, tool) == ev.op = "press" /\ ev.call = "add" /\ ev.tool = tool

\* C4 (Spec).  A Dot commit gives the Dot a number strictly larger than that
\* of the Dot committed before it since the last clear-all, whatever commits,
\* undos and redos came in between; the first Dot after a clear-all (as the
\* first of the session) gets number 1.
C4_DotNumbersIncrease ==
    [][ Committed(last', "dot") =>
            LET n == annotations'[Len(annotations')].counter
            IN /\ n > lastDotSeq
               /\ lastDotSeq = 0 => n = 1 ]_vars

\* Dot 2 committed after Dot 1 was committed and undone
C4_Witness ==
    /\ Committed(last, "dot") /\ lastDotSeq = 2
    /\ Len(annotations) = 1 /\ annotations[1].counter = 2

\* C5 (Spec).  The Dot counter starts at 1; a Dot commit adds exactly 1 to
\* it, a clear-all sets it to 1, and every other event (undo, redo, tool
\* selection, pointer move, other commits, export, ...) leaves it unchanged.
C5_CounterFrame ==
    /\ counter = 1
    /\ [][ IF Committed(last', "dot") THEN counter' = counter + 1
           ELSE IF last'.op = "clear" THEN counter' = 1
           ELSE counter' = counter ]_vars

\* a Dot was undone and the counter stayed where the Dot left it
C5_Witness ==
    /\ last.op = "undo" /\ last.ret = "True" /\ counter = 2
    /\ annotations = <<>> /\ redo_stack # <<>>
    /\ redo_stack[Len(redo_stack)][1].counter = 1

\* C6 (Spec).  An undo or a redo never renumbers: the Dots held by the
\* current list and by the snapshots on the two stacks are after the step
\* the very Dots (number included) held before it, and the list the step
\* makes current is the snapshot it took from the stack.
C6_DotNumbersFixed ==
    [][ /\ last'.call \in {"undo", "redo"} => AllDots' = AllDots
        /\ (last'.call = "undo" /\ last'.ret = "True") =>
                annotations' = undo_stack[Len(undo_stack)]
        /\ (last'.call = "redo" /\ last'.ret = "True") =>
                annotations' = redo_stack[Len(redo_stack)] ]_vars

\* an undo brought back a list whose only Dot carries number 2
C6_Witness ==
    /\ last.call = "undo" /\ last.ret = "True"
    /\ Len(annotations) = 1 /\ annotations[1].counter = 2
    /\ redo_stack # <<>>

\* C7 (Spec).  A tool selection discards the pending first point;
\* only a press sets a first point; and a primary press that finds no
\* pending point commits no two-click shape: with a two-click tool armed it
\* is a first press at its own location, otherwise it commits a Dot or a
\* Text at most.
C7_ToolChangeDiscardsPending ==
    [][ /\ last'.op = "tool_toggled" =>
              /\ shape_start_point' = NoPoint
              /\ shape_preview_end' = NoPoint
              /\ shape_type' = "None"
        /\ shape_start_point' \notin {NoPoint, shape_start_point} => last'.op = "press"
        /\ (last'.op = "press" /\ last'.button = 1 /\ ~Pending) =>
              /\ current_tool \in TwoClickTools =>
                    /\ shape_start_point' = last'.pt
                    /\ UNCHANGED <<annotations, undo_stack, redo_stack>>
              /\ last'.call = "add" =>
                    annotations'[Len(annotations')].tool_type \in {"dot", "text"} ]_vars

\* another tool was selected while a first point was pending
C7_Witness ==
    /\ last.op = "tool_toggled" /\ last.pending
    /\ current_tool = "dot" /\ shape_start_point = NoPoint

\* C8 (SpecPointer).  With a two-click tool armed and no pending point a
\* primary press at A records A as first point and as preview point and
\* leaves the history alone; pointer moves leave the first point alone; the
\* next primary press, at B, appends exactly one shape of the armed kind from
\* A to B (the press location, not the preview point), pushes one snapshot and
\* leaves the same tool armed with no pending point.
C8_TwoClickCommit ==
    [][ /\ (last'.op = "press" /\ last'.button = 1
             /\ current_tool \in TwoClickTools /\ ~Pending) =>
              /\ shape_start_point' = last'.pt
              /\ shape_preview_end' = last'.pt
              /\ current_tool' = current_tool
              /\ last'.ret = "True"
              /\ UNCHANGED <<annotations, undo_stack, redo_stack>>
        /\ last'.op = "motion" => shape_start_point' = shape_start_point
        /\ (last'.op = "press" /\ last'.button = 1
             /\ current_tool \in TwoClickTools /\ Pending) =>
              LET a == annotations'[Len(annotations')]
              IN /\ annotations' = Append(annotations, a)
                 /\ undo_stack' = Append(undo_stack, annotations)
                 /\ a.tool_type = current_tool
                 /\ <<a.x1, a.y1>> = shape_start_point
                 /\ <<a.x2, a.y2>> = last'.pt
                 /\ current_tool' = current_tool
                 /\ shape_start_point' = NoPoint
                 /\ shape_preview_end' = NoPoint
                 /\ last'.ret = "True" ]_vars

\* a rectangle committed by a second press away from its first point
C8_Witness ==
    /\ last.op = "press" /\ last.call = "add" /\ last.pending
    /\ Len(annotations) = 1 /\ annotations[1].tool_type = "rectangle"
    /\ <<annotations[1].x1, annotations[1].y1>> # last.pt
    /\ <<annotations[1].x2, annotations[1].y2>> = last.pt
    /\ shape_start_point = NoPoint /\ current_tool = "rectangle"

\* the step makes the current list longer
GainsShape == Len(annotations') > Len(annotations)

\* the step is a commit: it appends exactly one shape and pushes exactly one
\* snapshot (the list before the step), and it is the end of an interaction:
\* a second press of a two-click tool, a press with Dot armed, or a press
\* with Text armed whose dialog was confirmed with non-empty text
CommitStep ==
    last'.call = "add" =>
        LET a == annotations'[Len(annotations')]
        IN /\ annotations' = Append(annotations, a)
           /\ undo_stack' = Append(undo_stack, annotations)
           /\ last'.op = "press" /\ last'.button = 1
           /\ a.tool_type = current_tool
           /\ \/ current_tool \in TwoClickTools /\ Pending
              \/ current_tool = "dot"
              \/ /\ current_tool = "text"
                 /\ last'.dlg.response = "OK" /\ last'.dlg.text # ""

\* pointer moves and releases, first presses, tool, color, width and
\* head-style selection, repaint and export add no shape and push no snapshot
QuietStep ==
    (\/ last'.op \in {"motion", "release", "tool_toggled", "color", "line_width",
                      "arrow_style", "draw", "copy", "save"}
     \/ last'.op = "press" /\ current_tool \in TwoClickTools /\ ~Pending)
    => UNCHANGED <<annotations, undo_stack>>

\* C9 as stated (Spec).  The current list gains a shape only on a commit or
\* on a redo; a commit appends one shape and pushes one snapshot; the quiet
\* events add no shape and push no snapshot.
C9_GainOnlyOnCommitOrRedo ==
    [][ /\ GainsShape => last'.call \in {"add", "redo"}
        /\ CommitStep
        /\ QuietStep ]_vars

\* C9 (Spec), amended.  The current list gains a shape only on a commit, on
\* a redo, or on an undo that reverts a clear-all (the list is empty before
\* it and becomes the snapshot the clear-all pushed); a commit appends one
\* shape and pushes one snapshot; the quiet events add no shape and push no
\* snapshot.
C9_GainOnlyOnCommitRedoOrUndoOfClear ==
    [][ /\ GainsShape =>
              \/ last'.call \in {"add", "redo"}
              \/ /\ last'.call = "undo" /\ annotations = <<>>
                 /\ annotations' = undo_stack[Len(undo_stack)]
        /\ CommitStep
        /\ QuietStep ]_vars

\* an undo reverted a clear-all and brought a Dot back into the list
C9_Witness ==
    /\ last.call = "undo" /\ last.ret = "True"
    /\ Len(annotations) = 1 /\ annotations[1].tool_type = "dot"
    /\ redo_stack # <<>> /\ redo_stack[Len(redo_stack)] = <<>>

\* C10 (Spec).  A primary press with Text armed whose dialog is cancelled, or
\* confirmed with empty text, commits nothing: the current list and both
\* stacks stay as they were, a non-empty redo stack included.
C10_TextDialogRefused ==
    [][ (/\ last'.op = "press" /\ last'.button = 1 /\ current_tool = "text"
         /\ (last'.dlg.response # "OK" \/ last'.dlg.text = "")) =>
            /\ UNCHANGED <<annotations, undo_stack, redo_stack>>
            /\ last'.call = "none" ]_vars

\* a Text dialog confirmed with empty text while the redo stack held a snapshot
C10_Witness ==
    /\ last.op = "press" /\ last.tool = "text" /\ last.call = "none"
    /\ last.dlg.response = "OK" /\ last.dlg.text = ""
    /\ redo_stack # <<>> /\ annotations = <<>>

\* C11 (Spec).  A clear-all pushes the list it found onto the undo stack,
\* empties the redo stack and the current list, and discards a pending
\* two-click shape: no first point and no preview point remain after it.
C11_ClearDiscardsPending ==
    [][ last'.op = "clear" =>
            /\ undo_stack' = Append(undo_stack, annotations)
            /\ redo_stack' = <<>>
            /\ annotations' = <<>>
            /\ shape_start_point' = NoPoint
            /\ shape_preview_end' = NoPoint ]_vars

\* C12 (SpecView).  A set_view that binds the manager to a view other than
\* the one it was bound to (directly, or after a set_view(None)) leaves the
\* current list empty.
C12_RebindResetsSet ==
    [][ (last'.op = "set_view" /\ view' \notin {NoView, view}) =>
            annotations' = <<>> ]_vars

\* C13 (SpecView).  At every point at most one draw handler is connected; a
\* connected handler is the manager's own (draw_handler_id) on the view the
\* manager is bound to, and a bound manager has it connected; no handler is
\* connected while the manager is bound to no view; and no disconnect ever
\* named a handler that was not connected on the view it was called on.
C13_OneRenderHook ==
    /\ Cardinality(hooks) <= 1
    /\ hooks \subseteq {<<view, draw_handler_id>>}
    /\ view # NoView => hooks = {<<view, draw_handler_id>>}
    /\ view = NoView => hooks = {}
    /\ ~bad_disconnect

\* the manager bound to v2 by its third connect, after v1 and another binding
C13_Witness ==
    /\ last.op = "set_view" /\ view = "v2" /\ draw_handler_id = 3
    /\ hooks = {<<"v2", 3>>} /\ Len(annotations) = 1

\* the interaction states: no tool armed; a tool armed and nothing pending;
\* a two-click tool armed and its first point pending
Idle == current_tool \in {"None", ""}
ToolArmed == ~Idle /\ shape_start_point = NoPoint
AwaitingSecondPoint == current_tool \in TwoClickTools /\ shape_start_point # NoPoint

\* the program's own state: everything but the record of the last event and
\* the history variables
coreVars == <<mgrVars, counter, pendingVars, toolVars, text_bold_default,
              styleVars, btnVars, viewVars, dialog_at, hideVars>>

\* C14 (Spec).  A pointer move is consumed (the handler returns True) if and
\* only if the state is AwaitingSecondPoint when it arrives; in Idle and in
\* ToolArmed it returns False.
C14_MotionConsumed ==
    [][ last'.op = "motion" =>
            /\ last'.ret = "True" <=> AwaitingSecondPoint
            /\ (Idle \/ ToolArmed) => last'.ret = "False" ]_vars

\* a move consumed while the first point of an arrow was pending
C14_Witness ==
    /\ last.op = "motion" /\ last.ret = "True" /\ last.pending
    /\ current_tool = "arrow" /\ shape_start_point = Origin

\* C15 (SpecPointer).  A pointer move changes nothing but the preview point,
\* which it sets to the pointer position while AwaitingSecondPoint: the
\* list, the stacks, the armed tool, the first point and the Dot counter are
\* unchanged, and in Idle and ToolArmed the whole state is unchanged.
C15_MotionFrame ==
    [][ last'.op = "motion" =>
            /\ UNCHANGED <<mgrVars, counter, shape_start_point, shape_type,
                           toolVars, text_bold_default, styleVars, btnVars,
                           viewVars>>
            /\ AwaitingSecondPoint => shape_preview_end' = last'.pt
            /\ (Idle \/ ToolArmed) => UNCHANGED coreVars ]_vars

\* a move took the preview point away from the pending first point
C15_Witness ==
    /\ last.op = "motion" /\ last.pending
    /\ shape_start_point # NoPoint
    /\ shape_preview_end = last.pt /\ shape_preview_end # shape_start_point

\* C16 (Spec).  A press with a button other than the primary one changes
\* nothing in any state (list, stacks, first point, preview point, armed
\* tool, Dot counter and the rest of the state) and is not consumed.
C16_NonPrimaryPressIgnored ==
    [][ (last'.op = "press" /\ last'.button # 1) =>
            /\ UNCHANGED coreVars
            /\ last'.ret = "False" /\ last'.call = "none" ]_vars

\* a secondary-button press arrived while a first point was pending
C16_Witness ==
    /\ last.op = "press" /\ last.button = 3 /\ last.pending
    /\ last.ret = "False" /\ shape_start_point = Origin /\ current_tool = "arrow"

\* C17 (SpecPointer).  A repaint is a pure read: in every state, with or
\* without a pending shape and whether or not a draw call raises, it leaves
\* the list, both stacks, the interaction state and the rest of the state
\* unchanged; the preview shape it draws is not appended to the list.
C17_RepaintPureRead ==
    [][ last'.op = "draw" => UNCHANGED coreVars ]_vars

\* a repaint drew a committed shape and the preview of a pending one
C17_Witness ==
    /\ last.op = "draw" /\ last.pending /\ ~last.err
    /\ Len(annotations) = 1 /\ Len(last.out) = 2
    /\ last.out[2].shape \notin {annotations[i] : i \in DOMAIN annotations}

\* C18 (SpecPointer).  When a draw call raises during a repaint, the
\* exception is caught inside the handler: the handler returns its usual
\* False (nothing propagates to the host) and the state is unchanged.
C18_RepaintSurvivesFailure ==
    [][ (last'.op = "draw" /\ last'.err) =>
            /\ last'.ret = "False"
            /\ UNCHANGED coreVars ]_vars

\* the draw of the only committed shape raised, and the repaint returned False
C18_Witness ==
    /\ last.op = "draw" /\ last.err /\ last.ret = "False"
    /\ Len(annotations) = 1 /\ last.out = <<>>

C20_ExportRendersCurrentSet ==
    [][ (last'.op \in {"copy", "save"} /\ last'.done) =>
            /\ Len(last'.out) = Len(annotations)
            /\ \A i \in 1..Len(annotations) : last'.out[i].shape = annotations[i] ]_vars

\* an export made after an undo, with a first point pending, drew nothing
\* while the undone shape sat on the redo stack
C20_Witness ==
    /\ last.op \in {"copy", "save"} /\ last.done /\ last.pending
    /\ annotations = <<>> /\ last.out = <<>>
    /\ redo_stack # <<>> /\ Len(redo_stack[Len(redo_stack)]) = 1

\* two fractions denote the same number
SameNumber(f, g) == f[1] * g[2] = g[1] * f[2]

\* two rectangle paths with the same origin, width and height
SameRectangle(p, q) ==
    /\ Len(p) = 1 /\ Len(q) = 1
    /\ p[1].op = "rectangle" /\ q[1].op = "rectangle"
    /\ SameNumber(p[1].x, q[1].x) /\ SameNumber(p[1].y, q[1].y)
    /\ SameNumber(p[1].width, q[1].width)
    /\ SameNumber(p[1].height, q[1].height)

\* C26 (SpecGeom).  The rectangle stroked for two points is the one stroked
\* for the same points in the other order and for the other pair of
\* opposite corners: its origin is (min x, min y) and its far corner
\* (max x, max y), each scaled per axis.  For (10,50),(40,10) and for
\* (40,10),(10,50) at scale (1,1) it is (10,10)-(40,50).
C26_RectangleOrderIndependent ==
    /\ \A r \in { <<10, 50, 40, 10>>, <<40, 10, 10, 50>> } :
          draw_rectangle(GeomShape("rectangle", r[1], r[2], r[3], r[4]), One, One)
             = << [op |-> "rectangle", x |-> <<10, 1>>, y |-> <<10, 1>>,
                   width |-> <<30, 1>>, height |-> <<40, 1>>] >>
    /\ (last.op = "draw_shape" /\ last.out[1].shape.tool_type = "rectangle") =>
          LET c == last.out[1]
              a == c.shape
              p == c.path
          IN /\ \A q \in { <<a.x2, a.y2, a.x1, a.y1>>, <<a.x1, a.y2, a.x2, a.y1>>,
                           <<a.x2, a.y1, a.x1, a.y2>> } :
                   SameRectangle(p, draw_rectangle(
                       GeomShape("rectangle", q[1], q[2], q[3], q[4]),
                       c.scale_x, c.scale_y))
             /\ SameNumber(p[1].x, Times(Min(a.x1, a.x2), c.scale_x))
             /\ SameNumber(p[1].y, Times(Min(a.y1, a.y2), c.scale_y))
             /\ SameNumber(Plus(p[1].x, p[1].width), Times(Max(a.x1, a.x2), c.scale_x))
             /\ SameNumber(Plus(p[1].y, p[1].height), Times(Max(a.y1, a.y2), c.scale_y))

\* a rectangle given from its bottom-right to its top-left corner, drawn
\* with different factors on the two axes
C26_Witness ==
    /\ last.op = "draw_shape" /\ last.out[1].shape.tool_type = "rectangle"
    /\ last.out[1].shape.x1 = 4 /\ last.out[1].shape.x2 = 1
    /\ last.out[1].shape.y1 = 0 /\ last.out[1].shape.y2 = 3
    /\ last.out[1].scale_x = <<3, 2>> /\ last.out[1].scale_y = <<2, 1>>
    /\ SameNumber(last.out[1].path[1].x, <<3, 2>>)
    /\ SameNumber(last.out[1].path[1].width, <<9, 2>>)

\* C27 (SpecGeom).  A circle is drawn centred at the scaled first point with
\* the distance between the scaled first point and the scaled second point
\* as radius: radius^2 = (x2*sx - x1*sx)^2 + (y2*sy - y1*sy)^2.  For (0,0),
\* (3,4) at scale (1,1) the radius is 5.
C27_CircleRadius ==
    /\ draw_circle(GeomShape("circle", 0, 0, 3, 4), One, One)
          = << [op |-> "arc", cx |-> <<0, 1>>, cy |-> <<0, 1>>,
                radius_sq |-> <<5 * 5, 1>>] >>
    /\ (last.op = "draw_shape" /\ last.out[1].shape.tool_type = "circle") =>
          LET c == last.out[1]
              a == c.shape
              p == c.path
              px1 == Times(a.x1, c.scale_x)
              py1 == Times(a.y1, c.scale_y)
              px2 == Times(a.x2, c.scale_x)
              py2 == Times(a.y2, c.scale_y)
          IN /\ Len(p) = 1 /\ p[1].op = "arc"
             /\ SameNumber(p[1].cx, px1) /\ SameNumber(p[1].cy, py1)
             /\ SameNumber(p[1].radius_sq,
                           Plus(Square(Minus(px2, px1)), Square(Minus(py2, py1))))

\* the circle through (3,4) about (0,0), drawn with factors 2 and 1/2
C27_Witness ==
    /\ last.op = "draw_shape" /\ last.out[1].shape.tool_type = "circle"
    /\ last.out[1].shape.x1 = 0 /\ last.out[1].shape.y1 = 0
    /\ last.out[1].shape.x2 = 3 /\ last.out[1].shape.y2 = 4
    /\ last.out[1].scale_x = <<2, 1>> /\ last.out[1].scale_y = <<1, 2>>
    /\ SameNumber(last.out[1].path[1].radius_sq, <<40, 1>>)

\* an export step: the copy or the save handler has just run
Exported == last.op \in {"copy", "save"}

\* C21 (SpecExport).  An export draws every shape with scaleX = image width
\* / view width and scaleY = image height / view height, each on its own
\* axis: a rectangle with corners (x1,y1), (x2,y2) is stroked from
\* (min x * scaleX, min y * scaleY) to (max x * scaleX, max y * scaleY), and
\* the rectangle (10,10)-(20,20) in a 100 x 100 view of a 200 x 200 image
\* is stroked at (20,20)-(40,40).
C21_ExportScalesPerAxis ==
    (Exported /\ last.env.view_width > 0 /\ last.env.view_height > 0) =>
        \A i \in 1..Len(last.out) :
            LET c == last.out[i]
                a == c.shape
                scaleX == <<last.env.img_width, last.env.view_width>>
                scaleY == <<last.env.img_height, last.env.view_height>>
            IN /\ SameNumber(c.scale_x, scaleX)
               /\ SameNumber(c.scale_y, scaleY)
               /\ a.tool_type = "rectangle" =>
                     /\ Len(c.path) = 1
                     /\ SameNumber(c.path[1].x, Times(Min(a.x1, a.x2), scaleX))
                     /\ SameNumber(c.path[1].y, Times(Min(a.y1, a.y2), scaleY))
                     /\ SameNumber(Plus(c.path[1].x, c.path[1].width),
                                   Times(Max(a.x1, a.x2), scaleX))
                     /\ SameNumber(Plus(c.path[1].y, c.path[1].height),
                                   Times(Max(a.y1, a.y2), scaleY))
               /\ ( /\ a.tool_type = "rectangle"
                    /\ <<a.x1, a.y1, a.x2, a.y2>> = <<10, 10, 20, 20>>
                    /\ last.env.view_width = 100 /\ last.env.view_height = 100
                    /\ last.env.img_width = 200 /\ last.env.img_height = 200 ) =>
                     /\ SameNumber(c.path[1].x, <<20, 1>>)
                     /\ SameNumber(c.path[1].y, <<20, 1>>)
                     /\ SameNumber(Plus(c.path[1].x, c.path[1].width), <<40, 1>>)
                     /\ SameNumber(Plus(c.path[1].y, c.path[1].height), <<40, 1>>)

\* the rectangle (10,10)-(20,20) saved from a 100 x 100 view of a 200 x 300
\* image: stroked from (20,30), 20 wide and 30 high
C21_Witness ==
    /\ last.op = "save" /\ last.done
    /\ last.env.view_width = 100 /\ last.env.view_height = 100
    /\ last.env.img_width = 200 /\ last.env.img_height = 300
    /\ Len(annotations) = 1 /\ Len(last.out) = 1
    /\ annotations[1].tool_type = "rectangle"
    /\ <<annotations[1].x1, annotations[1].y1>> = <<10, 10>>
    /\ <<annotations[1].x2, annotations[1].y2>> = <<20, 20>>
    /\ SameNumber(last.out[1].path[1].x, <<20, 1>>)
    /\ SameNumber(last.out[1].path[1].y, <<30, 1>>)
    /\ SameNumber(last.out[1].path[1].width, <<20, 1>>)
    /\ SameNumber(last.out[1].path[1].height, <<30, 1>>)

\* C22 (SpecExport).  A copy or a save, delivered or not, leaves the
\* annotation list with every shape's stored coordinates, both stacks, the
\* pending point, the tool, the settings and the dot counter as they were;
\* without an image, a pixbuf or a view it draws nothing, puts nothing on
\* the clipboard and writes no file.
C22_ExportLeavesState ==
    [][ last'.op \in {"copy", "save"} =>
            /\ UNCHANGED coreVars
            /\ (~last'.env.image \/ ~last'.env.pixbuf \/ ~last'.env.image_view) =>
                  (~last'.done /\ last'.out = <<>> /\ last'.file = NoFile) ]_vars

\* a copy without a view, asked for with one rectangle committed and the
\* first point of another pending
C22_Witness ==
    /\ last.op = "copy" /\ ~last.env.image_view /\ ~last.done
    /\ Len(annotations) = 1 /\ Len(undo_stack) = 1
    /\ shape_start_point # NoPoint

\* C23 (SpecExport).  An export asked for while the view is 0 wide or 0 high
\* aborts: it draws nothing, puts nothing on the clipboard and writes no
\* file.
C23_ZeroSizedViewAborts ==
    (Exported /\ (last.env.view_width = 0 \/ last.env.view_height = 0)) =>
        (~last.done /\ last.out = <<>> /\ last.file = NoFile)

\* C24 (SpecExport).  The copy and the save handler return a value that
\* tells a failure from a success, False or True as undo and redo do, and
\* never raise.
C24_ExportResultReturned ==
    Exported => last.ret = (IF last.done THEN "True" ELSE "False")

\* the extension of path p starts at d: the last dot of p, after the last
\* separator, with a character other than a dot before it in that component
ExtensionAt(p, d) ==
    /\ p[d] = "."
    /\ \A j \in (d + 1)..Len(p) : p[j] # "." /\ p[j] # "/"
    /\ \E k \in 1..(d - 1) : p[k] # "." /\ \A j \in k..d : p[j] # "/"

\* C25 (SpecSave).  A save that writes a file writes it to the path of the
\* image with -annotated put before the extension: as JPEG of quality 95
\* when the extension is .jpg or .jpeg in any case, as PNG when it is .png
\* in any case, the extension kept as it was; and as PNG with the extension
\* replaced by .png when it is another one or missing.  photo.jpg gives
\* photo-annotated.jpg and photo.xyz gives photo-annotated.png.
C25_SavePath ==
    /\ save_target(<<"p", "h", "o", "t", "o", ".", "j", "p", "g">>)
          = [path |-> <<"p", "h", "o", "t", "o">> \o Annotated \o <<".", "j", "p", "g">>,
             encoder |-> "jpeg", quality |-> 95]
    /\ save_target(<<"p", "h", "o", "t", "o", ".", "x", "y", "z">>)
          = [path |-> <<"p", "h", "o", "t", "o">> \o Annotated \o <<".", "p", "n", "g">>,
             encoder |-> "png", quality |-> NoNum]
    /\ (last.op = "save" /\ last.done) =>
          LET p == last.env.file_path
              D == {d \in 1..Len(p) : ExtensionAt(p, d)}
          IN /\ D = {} =>
                   last.file = [path |-> p \o Annotated \o DotPng,
                                encoder |-> "png", quality |-> NoNum]
             /\ \A d \in D :
                   LET stem == SubSeq(p, 1, d - 1)
                       ext == SubSeq(p, d, Len(p))
                   IN last.file =
                        IF lower(ext) \in {DotJpg, DotJpeg}
                        THEN [path |-> stem \o Annotated \o ext,
                              encoder |-> "jpeg", quality |-> 95]
                        ELSE IF lower(ext) = DotPng
                        THEN [path |-> stem \o Annotated \o ext,
                              encoder |-> "png", quality |-> NoNum]
                        ELSE [path |-> stem \o Annotated \o DotPng,
                              encoder |-> "png", quality |-> NoNum]

\* a.xyz saved as a-annotated.png
C25_Witness ==
    /\ last.op = "save" /\ last.done
    /\ last.env.file_path = <<"a", ".", "x", "y", "z">>
    /\ last.file = [path |-> <<"a">> \o Annotated \o DotPng,
                    encoder |-> "png", quality |-> NoNum]

\* a step in which the manager took a snapshot: a shape committed or the
\* list cleared
Mutated == last'.call \in {"add_annotation", "clear"}

Settled == IF dialog_at = NoPoint THEN Mgr ELSE entry

\* C29 (SpecDialog).  A repaint finds the manager as a completed add, clear,
\* undo or redo left it (or as constructed), also when it runs while a
\* handler is suspended in its text dialog: no snapshot pushed for a shape
\* not yet appended, no stack half updated; and it draws that list.
C29_RepaintSeesSettledState ==
    [][ last'.op = "draw" =>
            /\ Mgr = Settled
            /\ Len(last'.out) = Len(Settled.annotations)
            /\ \A i \in 1..Len(last'.out) :
                  last'.out[i].shape = Settled.annotations[i] ]_vars

\* a repaint while the dialog for a second text is open, after a text was
\* committed
C29_Witness ==
    /\ last.op = "draw" /\ dialog_at # NoPoint
    /\ Len(annotations) = 1 /\ Len(last.out) = 1
    /\ Len(undo_stack) = 1 /\ redo_stack = <<>>
    /\ entry = Mgr

\* C31 (Spec).  undo and redo undo each other on the whole history: from any
\* state the program reaches, a successful undo followed at once by a redo
\* gives back the list and both stacks as they were, and so does a
\* successful redo followed by an undo; an undo or redo request, granted or
\* refused, leaves len(undo_stack) + len(redo_stack) as it was.
C31_UndoRedoInverse ==
    /\ [](can_undo(Mgr) =>
             /\ undo(Mgr).ret
             /\ redo(undo(Mgr).m).ret
             /\ redo(undo(Mgr).m).m = Mgr)
    /\ [](can_redo(Mgr) =>
             /\ redo(Mgr).ret
             /\ undo(redo(Mgr).m).ret
             /\ undo(redo(Mgr).m).m = Mgr)
    /\ [][ last'.op \in {"undo", "redo"} =>
              Len(undo_stack') + Len(redo_stack') = Len(undo_stack) + Len(redo_stack) ]_vars

\* a redo granted with a snapshot still left on the redo stack: both an
\* undo and a redo can follow
C31_Witness ==
    /\ last.op = "redo" /\ last.ret = "True"
    /\ Len(annotations) = 1
    /\ Len(undo_stack) = 1 /\ Len(redo_stack) = 1

\* C32 (Spec).  After every handled event (a commit, a clear, an undo or
\* redo request granted or refused, and any other) the undo button is
\* sensitive exactly when can_undo() holds and the redo button exactly when
\* can_redo() holds.
C32_ButtonsFollowStacks ==
    /\ undo_btn_sensitive = can_undo(Mgr)
    /\ redo_btn_sensitive = can_redo(Mgr)

\* the only snapshot undone: the undo button went off and the redo button on
C32_Witness ==
    /\ last.op = "undo" /\ last.ret = "True"
    /\ undo_stack = <<>> /\ redo_stack # <<>>
    /\ ~undo_btn_sensitive /\ redo_btn_sensitive

\* C33 (Spec).  No two Dots of the current list carry the same number.
C33_DotNumbersDistinct ==
    \A i, j \in 1..Len(annotations) :
        (i # j /\ annotations[i].tool_type = "dot" /\ annotations[j].tool_type = "dot")
            => annotations[i].counter # annotations[j].counter

\* C34 (SpecPointer).  The pending-shape fields agree: the first point, the
\* preview point and the shape type are all unset or all set, and when set
\* the shape type is the selected tool, one of arrow, rectangle and circle;
\* so no point is pending with no tool or with Dot or Text selected.
C34_PendingFieldsAgree ==
    /\ \/ shape_start_point = NoPoint /\ shape_preview_end = NoPoint /\ shape_type = "None"
       \/ shape_start_point # NoPoint /\ shape_preview_end # NoPoint /\ shape_type # "None"
    /\ shape_type # "None" =>
          (shape_type = current_tool /\ shape_type \in {"arrow", "rectangle", "circle"})
    /\ current_tool \in {"None", "dot", "text"} => shape_start_point = NoPoint


\* a rectangle pending from (1,2) with the pointer moved on to (3,1)
C34_Witness ==
    /\ last.op = "motion"
    /\ shape_start_point = Origin /\ shape_preview_end = <<3, 1>>
    /\ shape_type = "rectangle" /\ current_tool = "rectangle"

\* a shape with what its kind needs: both points, a number, or a content
WellFormed(a) ==
    /\ a.x1 # NoNum /\ a.y1 # NoNum
    /\ a.tool_type \in {"arrow", "rectangle", "circle"} => (a.x2 # NoNum /\ a.y2 # NoNum)
    /\ a.tool_type = "dot" => (a.counter # NoNum /\ a.counter >= 1)
    /\ a.tool_type = "text" => a.text # ""

\* the current list and every snapshot on the two stacks
AllLists ==
    {annotations} \cup {undo_stack[i] : i \in DOMAIN undo_stack}
                  \cup {redo_stack[i] : i \in DOMAIN redo_stack}

\* C35 (Spec).  Every shape of the current list and of every snapshot on the
\* undo and redo stacks is well formed: an arrow, rectangle or circle has
\* both points, a Dot a number >= 1, a text a non-empty content; so no
\* committed shape is skipped when drawn for want of a second point.
C35_ShapesWellFormed ==
    \A l \in AllLists : \A i \in 1..Len(l) :
        /\ WellFormed(l[i])
        /\ draw(l[i], One, One).path # <<>>

\* an arrow and a text in the list, the arrow alone in the top snapshot
C35_Witness ==
    /\ Len(annotations) = 2
    /\ annotations[1].tool_type = "arrow" /\ annotations[1].x2 # NoNum
    /\ annotations[2].tool_type = "text" /\ annotations[2].text # ""
    /\ Len(undo_stack) = 2 /\ undo_stack[2] = <<annotations[1]>>

\* C36 (SpecStyle).  Selecting a colour, a width or a head style changes no
\* shape of the list or of a snapshot and leaves both stacks as they were;
\* the selection shows in the shapes committed after it: a committed shape
\* carries the colour, width and head style selected when it is committed.
C36_StyleChangeFrame ==
    /\ [][ last'.op \in {"color", "line_width", "arrow_style"} =>
              UNCHANGED <<annotations, undo_stack, redo_stack>> ]_vars
    /\ [][ (last'.op = "press" /\ last'.call = "add") =>
              /\ annotations'[Len(annotations')].color = tb_current_color
              /\ annotations'[Len(annotations')].line_width = tb_current_line_width
              /\ annotations'[Len(annotations')].arrow_style = tb_current_arrow_style ]_vars

\* red selected with a blue arrow on the redo stack
C36_Witness ==
    /\ last.op = "color" /\ tb_current_color = <<1, 0, 0>>
    /\ annotations = <<>> /\ Len(redo_stack) = 1 /\ Len(redo_stack[1]) = 1
    /\ redo_stack[1][1].color = <<0, 0, 1>>

\* C37 (SpecPointer).  An undo or redo request leaves the tool, the pending
\* first point, the preview point and the Dot counter as they were; so the
\* primary press that follows one made with a shape pending commits that
\* shape, from its first point, onto the restored list.
C37_UndoRedoKeepInteraction ==
    /\ [][ last'.op \in {"undo", "redo"} =>
              UNCHANGED <<toolVars, pendingVars, counter>> ]_vars
    /\ [][ ( /\ last.op \in {"undo", "redo"} /\ last.pending
             /\ last'.op = "press" /\ last'.button = 1 ) =>
              /\ last'.call = "add"
              /\ Len(annotations') = Len(annotations) + 1
              /\ SubSeq(annotations', 1, Len(annotations)) = annotations
              /\ annotations'[Len(annotations')].tool_type = shape_type
              /\ <<annotations'[Len(annotations')].x1,
                   annotations'[Len(annotations')].y1>> = shape_start_point
              /\ <<annotations'[Len(annotations')].x2,
                   annotations'[Len(annotations')].y2>> = last'.pt
              /\ shape_start_point' = NoPoint ]_vars

\* a shape undone while the first point of the next one was pending: the
\* point is still pending on the emptied list
C37_Witness ==
    /\ last.op = "undo" /\ last.ret = "True" /\ last.pending
    /\ shape_start_point # NoPoint /\ shape_type = current_tool
    /\ annotations = <<>> /\ Len(redo_stack) = 1

\* the manager after the step
MgrAfter == [annotations |-> annotations', undo_stack |-> undo_stack',
             redo_stack |-> redo_stack', max_history |-> max_history']

\* C38 (Spec).  A clear always takes a snapshot, of an empty list too: after
\* it the list is empty, can_undo() holds, the top snapshot is the list as
\* it was, and one undo gives that list back, shape by shape, Dot numbers
\* included.
C38_ClearIsUndoable ==
    [][ last'.op = "clear" =>
            /\ annotations' = <<>>
            /\ can_undo(MgrAfter)
            /\ Len(undo_stack') = Len(undo_stack) + 1
            /\ undo(MgrAfter).ret
            /\ undo(MgrAfter).m.annotations = annotations
            /\ undo(MgrAfter).m.undo_stack = undo_stack ]_vars

\* the undo of a clear has put Dot 1 back, with the cleared (empty) list
\* on the redo stack
C38_Witness ==
    /\ last.op = "undo" /\ last.ret = "True"
    /\ redo_stack = << <<>> >>
    /\ Len(annotations) = 1 /\ annotations[1].tool_type = "dot"
    /\ annotations[1].counter = 1


\* C39 (Spec).  After any toggles at most one tool button is active; the
\* toolbar's current tool is that button's tool, or None when no button is
\* active; the plugin's current tool is the same (the empty string or None
\* when there is none); and each toggle by the user, with the nested run of
\* the handler for the button it switches off, emits tool-changed once.
C39_ToolSelectionExclusive ==
    /\ [](/\ Cardinality(tb_active) <= 1
          /\ tb_active = {} => (tb_current_tool = "None" /\ current_tool \in {"None", ""})
          /\ \A t \in tb_active : tb_current_tool = t /\ current_tool = t)
    /\ [][ last'.op = "tool_toggled" =>
              /\ Len(last'.out) = 1
              /\ last'.nested = Cardinality(tb_active \ {last'.tool}) ]_vars

\* Dot clicked while Text was active: the handler ran once more, nested, for
\* the Text button, and Dot is the one tool
C39_Witness ==
    /\ last.op = "tool_toggled" /\ last.tool = "dot" /\ last.nested = 1
    /\ last.out = <<"dot">>
    /\ tb_active = {"dot"} /\ tb_current_tool = "dot" /\ current_tool = "dot"


\* the zoom change, or the fullscreen change, has just been handled
HideEvent ==
    \/ last.op \in {"zoom_changed", "fullscreen_changed"}
    \/ last.op = "window_state" /\ last.button = 1

\* C40 (SpecHide).  After a zoom change or a fullscreen change is handled
\* the toolbar is shown if and only if the zoom is less than 1% away from
\* 100% and the window is not fullscreen, however it was before.
C40_AutoHide ==
    HideEvent =>
        /\ toolbar_shown = (Abs(current_zoom - 1000) < 10 /\ ~is_fullscreen)
        /\ toolbar_visible = toolbar_shown

\* back at 100.9% with the window fullscreen: the toolbar stays hidden
C40_Witness ==
    /\ last.op = "zoom_changed" /\ current_zoom = 1009
    /\ is_fullscreen /\ ~toolbar_shown
    /\ Len(annotations) = 1

====
